---- MODULE Spec2Model ----
(***************************************************************************)
(* Verification model of Semantir/smart-commit.                            *)
(*                                                                         *)
(* Six specifications share this module:                                   *)
(*   SpecDiff  - the Line Reconciler (src/src/preprocess.ts parseDiffLines)*)
(*   SpecPre   - the Diff Preprocessor (src/src/preprocess.ts              *)
(*               preprocessDiff, summarizeLockfile, computeWeight)         *)
(*   SpecNorm  - the Output Normalizer (src/src/webview/main.ts)           *)
(*   Spec      - the generation life cycle of the webview                  *)
(*               (startInference / abortInference / generateCommitMessage) *)
(*   SpecEngine - the engine cache (ensureWebLlmEngine)                    *)
(*   SpecHost  - the extension host (src/src/extension.ts refreshDiff,     *)
(*               startRepoPoller, acceptCommit)                            *)
(*                                                                         *)
(* Strings are sequences of one-character strings.  Characters outside    *)
(* ASCII are written as named atoms: "EM" is U+2014 (em dash), "EN" is     *)
(* U+2013 (en dash), "FWC" is U+FF0C (full-width comma), "FWS" is U+FF1B   *)
(* (full-width semicolon), "FWN" is U+FF1A (full-width colon) and "ZH1".. *)
(* are CJK ideographs; "BT" is the backtick, "DQ" the double quote, "LF"   *)
(* and "CR" are line feed and carriage return, "BUL" is U+2022.  Each has  *)
(* length 1, as in JavaScript.                                             *)
(***************************************************************************)
EXTENDS Integers, Sequences, FiniteSets, TLC

VARIABLES
    \* ---- Line Reconciler (SpecDiff) ----
    block,          \* the diff block handed to parseDiffLines: a sequence of lines
    parsed,         \* the value returned by parseDiffLines
    \* ---- Diff Preprocessor (SpecPre) ----
    pIn,            \* the arguments of one preprocessDiff call
    pOut,           \* the PreprocessResult of the call
    \* ---- Output Normalizer (SpecNorm) ----
    nIn,            \* the inputs of one normalization run
    nOut,           \* the results of the run
    \* ---- generation life cycle (Spec) ----
    diffPresent,    \* state.diff !== null
    busy,           \* state.busy
    retryCount,     \* state.retryCount
    overlay,        \* progress overlay visible
    currentAbort,   \* the attempt whose AbortController currentAbort holds, or 0
    timeoutId,      \* the attempt whose 15 s timer timeoutId holds, or 0
    webllmModule,   \* webllmModule !== null
    webllmEngine,   \* webllmEngine !== null
    att,            \* the generation attempts started so far (sequence of records)
    timers,         \* per attempt, its 15 s timer: "off" | "armed" | "dialog"
    commitOutput,   \* elements.commitOutput.value, abstracted to its last writer
    dialogs,        \* the dialogs that the step just taken showed
    gen,            \* how generateCommitMessage ended in the step just taken
    \* ---- engine cache (SpecEngine) ----
    engineCache,    \* webllmEngine, webllmEngineModelId, webllmEnginePromise
    ensureCalls,    \* the calls of ensureWebLlmEngine made so far
    \* ---- extension host (SpecHost) ----
    host            \* the SmartCommitWebviewController and what it works on

vars == <<block, parsed, pIn, pOut, nIn, nOut, diffPresent, busy, retryCount, overlay,
          currentAbort, timeoutId, webllmModule, webllmEngine, att, timers,
          commitOutput, dialogs, gen, engineCache, ensureCalls, host>>

diffVars == <<block, parsed, pIn, pOut>>
normVars == <<nIn, nOut>>
attemptVars == <<diffPresent, busy, retryCount, overlay, currentAbort, timeoutId,
                 webllmModule, webllmEngine, att, timers, commitOutput, dialogs, gen>>
lifeVars == <<attemptVars, engineCache, ensureCalls, host>>

-----------------------------------------------------------------------------
(* Characters and strings                                                  *)

LowerLetters == <<"a","b","c","d","e","f","g","h","i","j","k","l","m",
                  "n","o","p","q","r","s","t","u","v","w","x","y","z">>
UpperLetters == <<"A","B","C","D","E","F","G","H","I","J","K","L","M",
                  "N","O","P","Q","R","S","T","U","V","W","X","Y","Z">>
Digits == {"0","1","2","3","4","5","6","7","8","9"}

LowerSet == {LowerLetters[i] : i \in 1..26}
UpperSet == {UpperLetters[i] : i \in 1..26}

ToLowerMap == [c \in UpperSet |-> LowerLetters[CHOOSE i \in 1..26 : UpperLetters[i] = c]]
ToUpperMap == [c \in LowerSet |-> UpperLetters[CHOOSE i \in 1..26 : LowerLetters[i] = c]]

\* String.prototype.toLowerCase / toUpperCase on one character
LowerChar(c) == IF c \in UpperSet THEN ToLowerMap[c] ELSE c
UpperChar(c) == IF c \in LowerSet THEN ToUpperMap[c] ELSE c

ToLower(s) == [i \in 1..Len(s) |-> LowerChar(s[i])]

\* regex classes \s, \w, \d, [a-z0-9]
IsSpace(c) == c \in {" ", "\t"}
IsDigit(c) == c \in Digits
IsWord(c)  == c \in LowerSet \/ c \in UpperSet \/ c \in Digits \/ c = "_"
IsLowerAlnum(c) == c \in LowerSet \/ c \in Digits

\* s.slice(from) with a 0-based index
SliceFrom(s, from) == IF from >= Len(s) THEN <<>> ELSE SubSeq(s, from + 1, Len(s))
\* s.slice(0, to)
SliceTo(s, to) == IF to >= Len(s) THEN s ELSE SubSeq(s, 1, to)

\* s.startsWith(p), s.endsWith(p)
StartsWith(s, p) == Len(p) <= Len(s) /\ SubSeq(s, 1, Len(p)) = p
EndsWith(s, p) == Len(p) <= Len(s) /\ SubSeq(s, Len(s) - Len(p) + 1, Len(s)) = p

\* p occurs in s at 0-based index i
OccursAt(s, p, i) == i >= 0 /\ i + Len(p) <= Len(s) /\ SubSeq(s, i + 1, i + Len(p)) = p

\* s.includes(p)
Includes(s, p) == \E i \in 0..(Len(s) - Len(p)) : OccursAt(s, p, i)

\* s.indexOf(p): the first 0-based index, -1 when absent
IndexOf(s, p) ==
    LET occ == {i \in 0..(Len(s) - Len(p)) : OccursAt(s, p, i)}
    IN IF occ = {} THEN -1 ELSE CHOOSE i \in occ : \A j \in occ : i <= j

\* the concatenation of the strings e[lo..hi], by halving
RECURSIVE FlattenRange(_, _, _)
FlattenRange(e, lo, hi) ==
    IF lo > hi THEN <<>>
    ELSE IF lo = hi THEN e[lo]
    ELSE FlattenRange(e, lo, (lo + hi) \div 2) \o FlattenRange(e, (lo + hi) \div 2 + 1, hi)
Flatten(e) == FlattenRange(e, 1, Len(e))

\* s.trim(), s.trimStart(), s.trimEnd()
RECURSIVE TrimStart(_)
TrimStart(s) == IF s # <<>> /\ IsSpace(Head(s)) THEN TrimStart(Tail(s)) ELSE s
RECURSIVE TrimEnd(_)
TrimEnd(s) ==
    IF s # <<>> /\ IsSpace(s[Len(s)]) THEN TrimEnd(SubSeq(s, 1, Len(s) - 1)) ELSE s
Trim(s) == TrimEnd(TrimStart(s))

\* s.replace(/\s+/g, ' '): the first character of a white-space run becomes a
\* space, the others vanish
CollapseWs(s) ==
    Flatten([i \in 1..Len(s) |->
        IF IsSpace(s[i])
        THEN IF i > 1 /\ IsSpace(s[i - 1]) THEN <<>> ELSE <<" ">>
        ELSE <<s[i]>>])

\* s.replace(/\s{2,}/g, ' '): a single white-space character is kept as it is
CollapseWs2(s) ==
    Flatten([i \in 1..Len(s) |->
        IF IsSpace(s[i])
        THEN IF i > 1 /\ IsSpace(s[i - 1]) THEN <<>>
             ELSE IF i < Len(s) /\ IsSpace(s[i + 1]) THEN <<" ">>
             ELSE <<s[i]>>
        ELSE <<s[i]>>])

\* concatenation of a sequence of strings, and arr.join(sep)
RECURSIVE Concat(_)
Concat(ss) == IF ss = <<>> THEN <<>> ELSE Head(ss) \o Concat(Tail(ss))
RECURSIVE Join(_, _)
Join(ss, sep) ==
    IF ss = <<>> THEN <<>>
    ELSE IF Len(ss) = 1 THEN ss[1]
    ELSE ss[1] \o sep \o Join(Tail(ss), sep)

\* arr.slice(0, n) on sequences of anything
Take(ss, n) == IF n >= Len(ss) THEN ss ELSE SubSeq(ss, 1, n)

\* the elements of a sequence
Range(ss) == {ss[i] : i \in 1..Len(ss)}

\* the characters of s that are in ok, in order
FilterIn(s, ok) == Flatten([i \in 1..Len(s) |-> IF s[i] \in ok THEN <<s[i]>> ELSE <<>>])

\* path.split('/').pop(): the part after the last '/'
RECURSIVE LastSegment(_)
LastSegment(p) ==
    IF \E i \in 1..Len(p) : p[i] = "/"
    THEN LastSegment(SliceFrom(p, IndexOf(p, <<"/">>) + 1))
    ELSE p

\* path.split('/')[0] and path.split('/').length > 1
FirstSegment(p) == IF Includes(p, <<"/">>) THEN SliceTo(p, IndexOf(p, <<"/">>)) ELSE p
HasSlash(p) == Includes(p, <<"/">>)

\* Number(digits)
RECURSIVE ToNumber(_)
ToNumber(ds) ==
    IF ds = <<>> THEN 0
    ELSE 10 * ToNumber(SubSeq(ds, 1, Len(ds) - 1))
         + (CHOOSE n \in 0..9 : <<"0","1","2","3","4","5","6","7","8","9">>[n + 1] = ds[Len(ds)])

\* the longest run of digits at the start of s
RECURSIVE LeadingDigits(_)
LeadingDigits(s) ==
    IF s # <<>> /\ IsDigit(Head(s)) THEN <<Head(s)>> \o LeadingDigits(Tail(s)) ELSE <<>>

-----------------------------------------------------------------------------
(* Line Reconciler: src/src/preprocess.ts                                   *)

\* normalizeLine: line.replace(/\s+/g, ' ').trim()
normalizeLine(line) == Trim(CollapseWs(line))

\* /\+([0-9]+)(?:,([0-9]+))?/.exec(line): the 1-based positions of a '+' that a
\* digit follows
HunkMatches(line) == {i \in 1..(Len(line) - 1) : line[i] = "+" /\ IsDigit(line[i + 1])}
\* Number(match[1]) of the first match
HunkStart(line) ==
    LET i == CHOOSE j \in HunkMatches(line) : \A k \in HunkMatches(line) : j <= k
    IN ToNumber(LeadingDigits(SliceFrom(line, i)))

EmptyScan == [additions |-> 0, deletions |-> 0, added |-> <<>>, removed |-> <<>>,
              hunkStarts |-> <<>>]

\* one iteration of the first loop of parseDiffLines
ScanLine(acc, line) ==
    IF StartsWith(line, <<"@","@">>)
    THEN IF HunkMatches(line) # {}
         THEN [acc EXCEPT !.hunkStarts = Append(@, HunkStart(line))]
         ELSE acc
    ELSE IF StartsWith(line, <<"+","+","+">>) \/ StartsWith(line, <<"-","-","-">>)
    THEN acc
    ELSE IF StartsWith(line, <<"+">>)
    THEN [acc EXCEPT !.additions = @ + 1, !.added = Append(@, SliceFrom(line, 1))]
    ELSE IF StartsWith(line, <<"-">>)
    THEN [acc EXCEPT !.deletions = @ + 1, !.removed = Append(@, SliceFrom(line, 1))]
    ELSE acc

RECURSIVE ScanLines(_, _)
ScanLines(acc, lines) ==
    IF lines = <<>> THEN acc ELSE ScanLines(ScanLine(acc, Head(lines)), Tail(lines))

\* a JavaScript Map<string, number> in insertion order: a sequence of [key, count]
MapHas(m, k) == \E i \in 1..Len(m) : m[i].key = k
MapGet(m, k) == m[CHOOSE i \in 1..Len(m) : m[i].key = k].count
MapSet(m, k, v) ==
    IF MapHas(m, k)
    THEN [i \in 1..Len(m) |-> IF m[i].key = k THEN [key |-> k, count |-> v] ELSE m[i]]
    ELSE Append(m, [key |-> k, count |-> v])

\* the second loop: the multiset of removed lines, keyed by normalized text
RECURSIVE BuildRemovedSet(_, _)
BuildRemovedSet(m, removed) ==
    IF removed = <<>> THEN m
    ELSE LET key == normalizeLine(Head(removed))
         IN BuildRemovedSet(MapSet(m, key, (IF MapHas(m, key) THEN MapGet(m, key) ELSE 0) + 1),
                            Tail(removed))

\* the third loop: an added line cancels one removed line with the same key,
\* otherwise it is a net-added line.  st = [map, cleaned]
RECURSIVE CancelAdded(_, _)
CancelAdded(st, added) ==
    IF added = <<>> THEN st
    ELSE LET line == Head(added)
             key == normalizeLine(line)
         IN IF MapHas(st.map, key) /\ MapGet(st.map, key) > 0
            THEN CancelAdded([st EXCEPT !.map = MapSet(@, key, MapGet(st.map, key) - 1)],
                             Tail(added))
            ELSE CancelAdded([st EXCEPT !.cleaned = Append(@, line)], Tail(added))

\* the fourth loop: keys still counted are net-removed lines, pushed as `-${line}`
RECURSIVE RemainingRemoved(_)
RemainingRemoved(m) ==
    IF m = <<>> THEN <<>>
    ELSE (IF Head(m).count > 0 THEN <<(<<"-">> \o Head(m).key)>> ELSE <<>>)
         \o RemainingRemoved(Tail(m))

parseDiffLines(lines) ==
    LET scan == ScanLines(EmptyScan, lines)
        removedSet == BuildRemovedSet(<<>>, scan.removed)
        st == CancelAdded([map |-> removedSet, cleaned |-> <<>>], scan.added)
    IN [additions |-> scan.additions,
        deletions |-> scan.deletions,
        cleanedLines |-> st.cleaned \o RemainingRemoved(st.map),
        hunkStarts |-> scan.hunkStarts,
        addedLines |-> scan.added,
        removedLines |-> scan.removed]

-----------------------------------------------------------------------------
(* Inputs of the Line Reconciler                                           *)

\* the number of hunk lines of a block
MaxBlockLines == 3

\* the header every block starts with
BlockHeader ==
    << <<"d","i","f","f"," ","-","-","g","i","t"," ","a","/","q"," ","b","/","q">>,
       <<"-","-","-"," ","a","/","q">>,
       <<"+","+","+"," ","b","/","q">> >>

\* the hunk lines blocks are made of: a sign character and the text of the line
HunkLinePool ==
    { <<"-","a">>, <<"+","a">>,
      <<"-","a"," ","b">>, <<"+","a"," "," ","b">>,
      <<"-","b">>, <<"+","b">>,
      <<" ","a">>,
      <<"@","@"," ","-","1",","," ","2"," ","+","1","2",",","2"," ","@","@">>,
      <<"-","-","-"," ","n">>, <<"+","-","-"," ","n">> }

HunkBodies == UNION {[1..n -> HunkLinePool] : n \in 0..MaxBlockLines}

NotParsed == [done |-> FALSE, additions |-> 0, deletions |-> 0, cleanedLines |-> <<>>,
              hunkStarts |-> <<>>, addedLines |-> <<>>, removedLines |-> <<>>]

NoPreIn == [repoRoot |-> {}, lines |-> <<>>, maxChars |-> 0]

NoPreOut == [done |-> FALSE, files |-> <<>>, lockfileSummaries |-> <<>>,
             languageSignals |-> <<>>, rawDiff |-> <<>>, truncated |-> FALSE,
             totalAdditions |-> 0, totalDeletions |-> 0]

PreIdle == pIn = NoPreIn /\ pOut = NoPreOut

\* no engine: an engine is the record of the model id it was created for and
\* of the call that created it
NoEngine == [model |-> "none", creation |-> 0]

\* webllmEngine = null, webllmEngineModelId = null, webllmEnginePromise = null
\* (a promise is named by the call that created it, 0 is null)
EmptyCache == [engine |-> NoEngine, modelId |-> "none", promise |-> 0]

\* no call of generateCommitMessage ended in the step just taken
NoExit ==
    [by |-> 0, exit |-> "none", aborted |-> FALSE, calls |-> <<>>,
     streamThrew |-> FALSE, retryThrew |-> FALSE, repetitive |-> FALSE, depth |-> 0, outcome |-> "none"]

\* the controller after its constructor: no repository, no hash, no poller;
\* nothing staged, the analytics at their defaults, no acceptCommit call made
HostIdle ==
    [repoRoot |-> FALSE, diffHash |-> 0, poller |-> FALSE, staged |-> 0,
     shown |-> 0, posted |-> <<>>, ticks |-> 0, commitAccepted |-> 0,
     commits |-> <<>>, calls |-> <<>>]

LifeIdle ==
    /\ diffPresent = TRUE
    /\ busy = FALSE
    /\ retryCount = 0
    /\ overlay = FALSE
    /\ currentAbort = 0
    /\ timeoutId = 0
    /\ webllmModule = FALSE
    /\ webllmEngine = FALSE
    /\ att = <<>>
    /\ timers = <<>>
    /\ commitOutput = [by |-> 0, kind |-> "empty"]
    /\ dialogs = {}
    /\ gen = NoExit
    /\ engineCache = EmptyCache
    /\ ensureCalls = <<>>
    /\ host = HostIdle

-----------------------------------------------------------------------------
(* Output Normalizer: src/src/webview/main.ts                              *)

\* regex.test with the i flag, for a pattern that is a plain lower-case phrase
IncludesCI(s, p) == Includes(ToLower(s), p)

\* /updated implementation details|update logic|multiple files|misc|various/i
GenericPhrases ==
    { <<"u","p","d","a","t","e","d"," ","i","m","p","l","e","m","e","n","t","a","t","i","o","n"," ","d","e","t","a","i","l","s">>, <<"u","p","d","a","t","e"," ","l","o","g","i","c">>, <<"m","u","l","t","i","p","l","e"," ","f","i","l","e","s">>,
      <<"m","i","s","c">>, <<"v","a","r","i","o","u","s">> }

isTooGeneric(message) ==
    (\E p \in GenericPhrases : IncludesCI(message, p)) \/ Len(message) < 12

\* /updated implementation details|update logic|logic updated/i
isGenericHighlight(highlight) ==
    \E p \in { <<"u","p","d","a","t","e","d"," ","i","m","p","l","e","m","e","n","t","a","t","i","o","n"," ","d","e","t","a","i","l","s">>, <<"u","p","d","a","t","e"," ","l","o","g","i","c">>, <<"l","o","g","i","c"," ","u","p","d","a","t","e","d">> } :
        IncludesCI(highlight, p)

\* the length of the match of /\+\d+\/-\d+/ that starts at 1-based position i,
\* or 0: n1 and n2 are the lengths of the two runs of digits
StatLenTotal(n1, n2) == IF n2 = 0 THEN 0 ELSE 1 + n1 + 2 + n2
StatLenFrom(s, i, n1) ==
    IF n1 = 0 \/ i + n1 + 2 > Len(s) \/ s[i + n1 + 1] # "/" \/ s[i + n1 + 2] # "-" THEN 0
    ELSE StatLenTotal(n1, Len(LeadingDigits(SliceFrom(s, i + n1 + 2))))
StatLenAt(s, i) ==
    IF i > Len(s) \/ s[i] # "+" THEN 0
    ELSE StatLenFrom(s, i, Len(LeadingDigits(SliceFrom(s, i))))

\* the length of the match of /\(\+\d+\/-\d+\)/ that starts at position i, or 0
ParenStatClose(s, i, n) ==
    IF n > 0 /\ i + n + 1 <= Len(s) /\ s[i + n + 1] = ")" THEN n + 2 ELSE 0
ParenStatLenAt(s, i) ==
    IF i > Len(s) \/ s[i] # "(" THEN 0 ELSE ParenStatClose(s, i, StatLenAt(s, i + 1))

\* /\(\+\d+\/-\d+\)|\+\d+\/-\d+|files changed|lines:/i
containsDiffStats(subject) ==
    \/ \E i \in 1..Len(subject) : StatLenAt(subject, i) > 0
    \/ IncludesCI(subject, <<"f","i","l","e","s"," ","c","h","a","n","g","e","d">>)
    \/ IncludesCI(subject, <<"l","i","n","e","s",":">>)

\* s without the characters a span <<start, length>> of spans covers
RemoveSpans(s, spans) ==
    Flatten([i \in 1..Len(s) |->
        IF \E sp \in spans : sp[1] <= i /\ i < sp[1] + sp[2] THEN <<>> ELSE <<s[i]>>])

\* s.replace(/\(\+\d+\/-\d+\)/g, '') and s.replace(/\+\d+\/-\d+/g, ''): a match
\* holds no '(' and no '+' after its first character, so matches never overlap
\* and a character goes exactly when a match covers it
RemoveParenStats(s) ==
    RemoveSpans(s, {<<j, ParenStatLenAt(s, j)>> :
                        j \in {k \in 1..Len(s) : ParenStatLenAt(s, k) > 0}})
RemoveStats(s) ==
    RemoveSpans(s, {<<j, StatLenAt(s, j)>> : j \in {k \in 1..Len(s) : StatLenAt(s, k) > 0}})

stripSubjectNoise(subject) ==
    Trim(CollapseWs2(RemoveStats(RemoveParenStats(
        IF StartsWith(ToLower(subject), <<"s","u","b","j","e","c","t",":">>)
        THEN TrimStart(SliceFrom(subject, 8)) ELSE subject))))

\* the longest prefix of s made of characters of the class [\w-]
RECURSIVE WordDashRun(_)
WordDashRun(s) ==
    IF s # <<>> /\ (IsWord(Head(s)) \/ Head(s) = "-")
    THEN <<Head(s)>> \o WordDashRun(Tail(s)) ELSE <<>>

NoParse == [matched |-> FALSE, type |-> <<>>, hasScope |-> FALSE, scope |-> <<>>,
            subject |-> <<>>]

\* the end of the match: ':' , optional white space, and a non-empty subject
ParseSubject(type, hasScope, scope, afterScope) ==
    IF type = <<>> \/ afterScope = <<>> \/ Head(afterScope) # ":"
       \/ TrimStart(Tail(afterScope)) = <<>>
    THEN NoParse
    ELSE [matched |-> TRUE, type |-> type, hasScope |-> hasScope, scope |-> scope,
          subject |-> TrimStart(Tail(afterScope))]

\* the optional group (?:\(([^)]+)\))?: rest is what follows the type, close the
\* 0-based index of its first ')'
ParseScope(type, rest, close) ==
    IF rest # <<>> /\ Head(rest) = "(" /\ close >= 2
    THEN ParseSubject(type, TRUE, SubSeq(rest, 2, close), SliceFrom(rest, close + 1))
    ELSE ParseSubject(type, FALSE, <<>>, rest)

ParseType(m, type) ==
    ParseScope(type, SliceFrom(m, Len(type)), IndexOf(SliceFrom(m, Len(type)), <<")">>))

ParseTrimmed(m) ==
    ParseType(m, IF m # <<>> /\ (Head(m) \in LowerSet \/ Head(m) \in UpperSet)
                 THEN WordDashRun(m) ELSE <<>>)

\* /^([a-zA-Z][\w-]*)(?:\(([^)]+)\))?:\s*(.+)$/.exec(message.trim())
parseCommitMessage(message) == ParseTrimmed(Trim(message))

\* normalizeForMatch: lower-case, every run of characters outside [a-z0-9]
\* becomes one space, trimmed
normalizeForMatch(text) ==
    Trim(CollapseWs([i \in 1..Len(text) |->
        IF IsLowerAlnum(LowerChar(text[i])) THEN LowerChar(text[i]) ELSE " "]))

\* s.replace(/^[.#/]+/, '')
RECURSIVE StripLeadingMarks(_)
StripLeadingMarks(s) ==
    IF s # <<>> /\ Head(s) \in {".", "#", "/"} THEN StripLeadingMarks(Tail(s)) ELSE s

IsAlnum(c) == c \in LowerSet \/ c \in UpperSet \/ c \in Digits

\* the 1-based positions of a '.' that only letters and digits follow, to the end
ExtDots(base) ==
    {i \in 1..(Len(base) - 1) : base[i] = "." /\ \A j \in (i + 1)..Len(base) : IsAlnum(base[j])}

\* base.replace(/\.[a-z0-9]+$/i, ''): drop a final extension
StripExt(base) ==
    IF ExtDots(base) = {} THEN base
    ELSE SubSeq(base, 1, (CHOOSE i \in ExtDots(base) : \A k \in ExtDots(base) : i <= k) - 1)

\* if (cond) variants.add(v), on a Set kept as a sequence in insertion order
AddVariant(variants, v, cond) ==
    IF cond /\ v \notin Range(variants) THEN Append(variants, v) ELSE variants

VariantsOf(trimmed, stripped, base, noExt) ==
    AddVariant(
        AddVariant(
            AddVariant(<<trimmed>>, stripped, stripped # <<>> /\ stripped # trimmed),
            base, base # <<>> /\ base # trimmed),
        noExt, noExt # <<>> /\ noExt # base)

VariantsOfBase(trimmed, base) ==
    VariantsOf(trimmed, StripLeadingMarks(trimmed), base, StripExt(base))

\* expandTokenVariants: the raw token, the token without leading . # /, its
\* basename, its basename without extension (a Set in insertion order)
expandTokenVariants(token) ==
    IF Trim(token) = <<>> THEN <<>> ELSE VariantsOfBase(Trim(token), LastSegment(Trim(token)))

\* the same test without the length condition
VariantMatchesAnyLength(normalizedSubject, normalizedVariant) ==
    Includes(normalizedSubject, normalizedVariant)

\* normalizedVariant.length >= 3 && normalizedSubject.includes(normalizedVariant)
VariantMatches(normalizedSubject, normalizedVariant) ==
    Len(normalizedVariant) >= 3 /\ Includes(normalizedSubject, normalizedVariant)

\* the inner loop of matchRequiredTokens: some variant of at least 3 normalized
\* characters occurs in the normalized subject
TokenMatches(normalizedSubject, token) ==
    \E v \in Range(expandTokenVariants(token)) :
        VariantMatches(normalizedSubject, normalizeForMatch(v))

\* arr with later duplicates dropped
RECURSIVE Dedup(_)
Dedup(ss) ==
    IF ss = <<>> THEN <<>>
    ELSE AddVariant(Dedup(SubSeq(ss, 1, Len(ss) - 1)), ss[Len(ss)], TRUE)

RECURSIVE MatchedOf(_, _)
MatchedOf(normalizedSubject, tokens) ==
    IF tokens = <<>> THEN <<>>
    ELSE (IF TokenMatches(normalizedSubject, Head(tokens)) THEN <<Head(tokens)>> ELSE <<>>)
         \o MatchedOf(normalizedSubject, Tail(tokens))

Max(a, b) == IF a >= b THEN a ELSE b
Min(a, b) == IF a <= b THEN a ELSE b

\* the same with one matched token always enough
MatchResultOneEnough(matchedTokens, requiredCount) ==
    [ok |-> Len(matchedTokens) >= Min(1, requiredCount), matchedTokens |-> matchedTokens]

MatchResult(matchedTokens, requiredCount) ==
    [ok |-> Len(matchedTokens) >= Max(1, requiredCount), matchedTokens |-> matchedTokens]

matchRequiredTokens(subject, tokens, requiredCount) ==
    IF tokens = <<>> THEN [ok |-> TRUE, matchedTokens |-> <<>>]
    ELSE MatchResult(Dedup(MatchedOf(normalizeForMatch(subject), tokens)), requiredCount)

-----------------------------------------------------------------------------
(* Ranking and required tokens                                             *)

\* (a.additions + a.deletions) || a.weight || 0
Score(f) ==
    IF f.additions + f.deletions # 0 THEN f.additions + f.deletions
    ELSE IF f.weight # 0 THEN f.weight ELSE 0

\* [...diff.files].sort((a, b) => scoreB - scoreA): descending and stable
RECURSIVE InsertRanked(_, _)
InsertRanked(sorted, f) ==
    IF sorted = <<>> THEN <<f>>
    ELSE IF Score(Head(sorted)) < Score(f) THEN <<f>> \o sorted
    ELSE <<Head(sorted)>> \o InsertRanked(Tail(sorted), f)
RECURSIVE RankFiles(_)
RankFiles(files) ==
    IF files = <<>> THEN <<>>
    ELSE InsertRanked(RankFiles(SubSeq(files, 1, Len(files) - 1)), files[Len(files)])

\* arr.filter(Boolean) on strings
RECURSIVE NonEmpty(_)
NonEmpty(ss) ==
    IF ss = <<>> THEN <<>>
    ELSE (IF Head(ss) # <<>> THEN <<Head(ss)>> ELSE <<>>) \o NonEmpty(Tail(ss))

\* the tokens one file contributes, in the order buildRequiredTokens pushes them
FileTokensOf(file, base, topDir) ==
    (IF base # <<>> THEN <<base>> ELSE <<>>)
    \o NonEmpty(Take(file.keywords, 2))
    \o NonEmpty(Take(file.context, 2))
    \o (IF topDir # <<>> /\ topDir # base THEN <<topDir>> ELSE <<>>)
FileTokens(file) ==
    FileTokensOf(file, LastSegment(file.path),
                 IF HasSlash(file.path) THEN FirstSegment(file.path) ELSE <<>>)

RECURSIVE AllFileTokens(_)
AllFileTokens(files) ==
    IF files = <<>> THEN <<>> ELSE FileTokens(Head(files)) \o AllFileTokens(Tail(files))

\* the final filter: the first token of every lower-case form, if longer than 1
RECURSIVE FilterTokens(_, _)
FilterTokens(tokens, seen) ==
    IF tokens = <<>> THEN <<>>
    ELSE IF ToLower(Head(tokens)) \in seen THEN FilterTokens(Tail(tokens), seen)
    ELSE (IF Len(Head(tokens)) > 1 THEN <<Head(tokens)>> ELSE <<>>)
         \o FilterTokens(Tail(tokens), seen \cup {ToLower(Head(tokens))})

buildRequiredTokens(files) == FilterTokens(AllFileTokens(files), {})

-----------------------------------------------------------------------------
(* Fragments                                                               *)

\* a word of word characters stands at 1-based position i of s, between \b and \b
WordAt(s, w, i) ==
    /\ i + Len(w) - 1 <= Len(s)
    /\ ToLower(SubSeq(s, i, i + Len(w) - 1)) = w
    /\ (i = 1 \/ ~IsWord(s[i - 1]))
    /\ (i + Len(w) > Len(s) \/ ~IsWord(s[i + Len(w)]))

\* s.replace(/\bw\b/gi, ''): matches are whole words, so they never overlap
RemoveWord(s, w) ==
    RemoveSpans(s, {<<j, Len(w)>> : j \in {k \in 1..Len(s) : WordAt(s, w, k)}})

\* a || b on strings
OrElse(a, b) == IF a # <<>> THEN a ELSE b

normalizeHighlight(highlight) ==
    OrElse(Trim(CollapseWs2(RemoveWord(RemoveWord(RemoveWord(highlight, <<"u","p","d","a","t","e","d">>),
                                                   <<"t","o","u","c","h","e","d">>), <<"f","i","l","e">>))),
           highlight)

InferActionOf(lower) ==
    IF \/ EndsWith(lower, <<".","c","s","s">>) \/ EndsWith(lower, <<".","s","c","s","s">>)
       \/ EndsWith(lower, <<".","s","a","s","s">>) \/ EndsWith(lower, <<".","l","e","s","s">>)
    THEN <<"s","t","y","l","e","s">>
    ELSE IF \/ Includes(lower, <<"c","m","a","k","e">>) \/ Includes(lower, <<"m","a","k","e","f","i","l","e">>)
            \/ StartsWith(lower, <<"b","u","i","l","d","/">>) \/ Includes(lower, <<"/","b","u","i","l","d","/">>)
    THEN <<"b","u","i","l","d"," ","c","o","n","f","i","g">>
    ELSE IF \/ Includes(lower, <<"d","o","c","s">>) \/ Includes(lower, <<"r","e","a","d","m","e">>)
            \/ EndsWith(lower, <<".","m","d">>)
    THEN <<"d","o","c","s">>
    ELSE <<>>
inferDefaultAction(filePath) == InferActionOf(ToLower(filePath))

\* arr.find(item => !isGenericHighlight(item)) ?? ''
RECURSIVE FirstSpecificHighlight(_)
FirstSpecificHighlight(hs) ==
    IF hs = <<>> THEN <<>>
    ELSE IF ~isGenericHighlight(Head(hs)) THEN Head(hs)
    ELSE FirstSpecificHighlight(Tail(hs))

\* highlight ? normalizeHighlight(highlight) : ''
CleanHighlight(highlight) == IF highlight # <<>> THEN normalizeHighlight(highlight) ELSE <<>>

\* if (v && details.length < 2) details.push(v)
PushDetail(details, v) == IF v # <<>> /\ Len(details) < 2 THEN Append(details, v) ELSE details

\* the details of buildSubjectFragment: keyword, context label, highlight, action
FragmentDetails(file) ==
    PushDetail(
        PushDetail(
            PushDetail(
                PushDetail(<<>>, IF file.keywords # <<>> THEN Trim(file.keywords[1]) ELSE <<>>),
                IF file.context # <<>> THEN Trim(file.context[1]) ELSE <<>>),
            CleanHighlight(FirstSpecificHighlight(file.highlights))),
        inferDefaultAction(file.path))

buildSubjectFragment(file) ==
    Trim(LastSegment(file.path) \o <<" ">> \o Join(FragmentDetails(file), <<" ">>))

FragmentsOf(ranked) == NonEmpty([i \in 1..Len(ranked) |-> buildSubjectFragment(ranked[i])])
buildDetailFragments(diff) == FragmentsOf(Take(RankFiles(diff.files), 5))

pickHighlight(diff) ==
    IF diff.files = <<>> THEN <<>>
    ELSE CleanHighlight(FirstSpecificHighlight(diff.files[1].highlights))

applySubjectStyle(subject, promptConfig, lang) ==
    IF promptConfig.subjectStyle = "sentence" /\ lang = "en" /\ subject # <<>>
    THEN <<UpperChar(Head(subject))>> \o Tail(subject)
    ELSE subject

\* the subject deriveDetailedSubject composes from the first file of the diff
DetailedSubject(hasTop, topHighlight, topContext, fileBase) ==
    IF topHighlight # <<>> /\ ~isGenericHighlight(topHighlight)
    THEN IF topContext # <<>> THEN topHighlight \o <<" ","i","n"," ">> \o topContext
         ELSE topHighlight
    ELSE IF topContext # <<>> THEN <<"u","p","d","a","t","e"," ">> \o topContext
    ELSE IF hasTop THEN <<"u","p","d","a","t","e"," ">> \o fileBase
    ELSE <<"u","p","d","a","t","e"," ","i","m","p","l","e","m","e","n","t","a","t","i","o","n">>

deriveDetailedSubject(diff, promptConfig, lang) ==
    applySubjectStyle(
        DetailedSubject(
            diff.files # <<>>,
            IF diff.files # <<>> /\ diff.files[1].highlights # <<>>
            THEN diff.files[1].highlights[1] ELSE <<>>,
            IF diff.files # <<>> /\ diff.files[1].context # <<>>
            THEN diff.files[1].context[1] ELSE <<>>,
            IF diff.files # <<>> THEN LastSegment(diff.files[1].path) ELSE <<"r","e","p","o">>),
        promptConfig, lang)

-----------------------------------------------------------------------------
(* Length control and synthesis                                            *)

minSubjectLength == 80
maxSubjectLength == 120

\* the separators of trimToMax, in the order it tries them
TrimSeparators == << <<" ","EM"," ">>, <<"FWC">>, <<";">>, <<",">>, <<":">> >>

\* s.replace(/[，,;:\-–—\s]+$/g, '')
RECURSIVE StripTrailingPunct(_)
StripTrailingPunct(s) ==
    IF s # <<>> /\ (s[Len(s)] \in {"FWC", ",", ";", ":", "-", "EN", "EM"} \/ IsSpace(s[Len(s)]))
    THEN StripTrailingPunct(SubSeq(s, 1, Len(s) - 1))
    ELSE s

\* index > 0 && index <= maxLength, and the trimmed prefix has 10 characters
SeparatorFits(value, maxLength, index) ==
    index > 0 /\ index <= maxLength /\ Len(Trim(SliceTo(value, index))) >= 10

\* the for loop of trimToMax over the separators not yet tried, and the hard
\* truncation after it
RECURSIVE TrimAtSeparator(_, _, _)
TrimAtSeparator(value, maxLength, seps) ==
    IF seps = <<>>
    THEN Trim(StripTrailingPunct(SliceTo(value, maxLength)))
    ELSE IF SeparatorFits(value, maxLength, IndexOf(value, Head(seps)))
    THEN Trim(SliceTo(value, IndexOf(value, Head(seps))))
    ELSE TrimAtSeparator(value, maxLength, Tail(seps))

trimToMax(value, maxLength) ==
    IF maxLength <= 0 \/ Len(value) <= maxLength THEN value
    ELSE TrimAtSeparator(value, maxLength, TrimSeparators)

\* joiner and prefix of ensureSubjectLength
LengthJoiner(lang) == IF lang = "zh" THEN <<"FWS">> ELSE <<";"," ">>
LengthPrefix(lang) == IF lang = "zh" THEN <<"FWC","ZH3","ZH4","FWN">> ELSE <<" ","EM"," ">>

\* next = appended ? `${appended}${joiner}${fragment}` : fragment
NextAppended(appended, fragment, lang) ==
    IF appended # <<>> THEN appended \o LengthJoiner(lang) \o fragment ELSE fragment

\* `${candidate}${prefix}${appended}${tokenSnippet}`.replace(/\s+/g, ' ').trim()
WithAppended(candidate, appended, tokenSnippet, lang) ==
    Trim(CollapseWs(candidate \o LengthPrefix(lang) \o appended \o tokenSnippet))

\* the for loop of ensureSubjectLength: fragments are appended while the
\* candidate with the token snippet still fits; the first that does not fit
\* ends the loop
RECURSIVE AppendFragments(_, _, _, _, _, _)
AppendFragments(appended, fragments, candidate, tokenSnippet, maxLength, lang) ==
    IF fragments = <<>> THEN appended
    ELSE IF /\ maxLength > 0
            /\ Len(WithAppended(candidate, NextAppended(appended, Head(fragments), lang),
                                tokenSnippet, lang)) > maxLength
    THEN appended
    ELSE AppendFragments(NextAppended(appended, Head(fragments), lang), Tail(fragments),
                         candidate, tokenSnippet, maxLength, lang)

\* the end of ensureSubjectLength: pad with the token snippet, trim again
PadExpanded(expanded, tokenSnippet, minLength, maxLength) ==
    IF /\ minLength > 0 /\ Len(expanded) < minLength /\ tokenSnippet # <<>>
       /\ ~Includes(expanded, Trim(tokenSnippet))
    THEN IF maxLength > 0
         THEN trimToMax(Trim(CollapseWs(expanded \o tokenSnippet)), maxLength)
         ELSE Trim(CollapseWs(expanded \o tokenSnippet))
    ELSE expanded

ExpandWith(candidate, appended, tokenSnippet, lang, minLength, maxLength) ==
    PadExpanded(IF appended # <<>> THEN WithAppended(candidate, appended, tokenSnippet, lang)
                ELSE candidate,
                tokenSnippet, minLength, maxLength)

\* ensureSubjectLength from the candidate that already fits maxLength
ExpandCandidate(candidate, fragments, tokenSnippet, lang, minLength, maxLength) ==
    IF minLength <= 0 \/ Len(candidate) >= minLength THEN candidate
    ELSE ExpandWith(candidate,
                    AppendFragments(<<>>, fragments, candidate, tokenSnippet, maxLength, lang),
                    tokenSnippet, lang, minLength, maxLength)

\* tokenSnippet = requiredTokens.length ? ` ${requiredTokens.slice(0, 4).join(', ')}` : ''
TokenSnippet(requiredTokens) ==
    IF requiredTokens # <<>> THEN <<" ">> \o Join(Take(requiredTokens, 4), <<","," ">>)
    ELSE <<>>

ensureSubjectLength(subject, diff, requiredTokens, lang, minLength, maxLength) ==
    ExpandCandidate(IF maxLength > 0 /\ Len(subject) > maxLength
                    THEN trimToMax(subject, maxLength) ELSE subject,
                    buildDetailFragments(diff), TokenSnippet(requiredTokens), lang,
                    minLength, maxLength)

\* "update " / "更新 " and " and " / " 与 "
UpdateVerb(lang) == IF lang = "zh" THEN <<"ZH1","ZH2"," ">> ELSE <<"u","p","d","a","t","e"," ">>
AndWord(lang) == IF lang = "zh" THEN <<" ","ZH5"," ">> ELSE <<" ","a","n","d"," ">>

\* the subject buildSpecificSubject composes before length control and style:
\* kind "derived" is the return of deriveDetailedSubject, kind "plain" the one
\* for a diff without a ranked file, both without length control
BaseOfFragments(tokens, primaryFragment, secondaryFragment, fallbackHighlight, requiredTokenCount, lang) ==
    IF primaryFragment = <<>>
    THEN IF tokens = <<>>
         THEN [kind |-> "derived", subject |-> <<>>]
         ELSE [kind |-> "plain",
               subject |-> IF fallbackHighlight # <<>>
                           THEN UpdateVerb(lang) \o tokens[1] \o <<" ">> \o fallbackHighlight
                           ELSE UpdateVerb(lang) \o tokens[1]]
    ELSE IF requiredTokenCount > 1 /\ (secondaryFragment # <<>> \/ Len(tokens) >= 2)
    THEN [kind |-> "bounded",
          subject |-> UpdateVerb(lang) \o primaryFragment \o AndWord(lang)
                      \o OrElse(secondaryFragment, IF Len(tokens) >= 2 THEN tokens[2] ELSE <<>>)]
    ELSE [kind |-> "bounded", subject |-> UpdateVerb(lang) \o primaryFragment]

BaseOfRanked(tokens, rankedFiles, fallbackHighlight, requiredTokenCount, lang) ==
    BaseOfFragments(tokens,
                    IF Len(rankedFiles) >= 1 THEN buildSubjectFragment(rankedFiles[1]) ELSE <<>>,
                    IF Len(rankedFiles) >= 2 THEN buildSubjectFragment(rankedFiles[2]) ELSE <<>>,
                    fallbackHighlight, requiredTokenCount, lang)

SpecificBase(diff, requiredTokens, requiredTokenCount, lang) ==
    BaseOfRanked(NonEmpty(requiredTokens), RankFiles(diff.files), pickHighlight(diff),
                 requiredTokenCount, lang)

\* buildSpecificSubject from the subject it composed
SubjectOfBase(b, diff, requiredTokens, promptConfig, lang, minLength, maxLength) ==
    IF b.kind = "derived" THEN deriveDetailedSubject(diff, promptConfig, lang)
    ELSE IF b.kind = "plain" THEN applySubjectStyle(b.subject, promptConfig, lang)
    ELSE applySubjectStyle(
             IF minLength > 0 \/ maxLength > 0
             THEN ensureSubjectLength(b.subject, diff, requiredTokens, lang,
                                      minLength, maxLength)
             ELSE b.subject,
             promptConfig, lang)

buildSpecificSubject(diff, requiredTokens, requiredTokenCount, promptConfig, lang, minLength, maxLength) ==
    SubjectOfBase(SpecificBase(diff, requiredTokens, requiredTokenCount, lang),
                  diff, requiredTokens, promptConfig, lang, minLength, maxLength)

\* the reasons ensureSpecificSubject collects for the cleaned subject
RejectReasons(cleaned, requiredTokens, requiredTokenCount, minLength) ==
    (IF Len(cleaned) = 0 THEN {"empty"} ELSE {})
    \cup (IF ~matchRequiredTokens(cleaned, requiredTokens, requiredTokenCount).ok
          THEN {"missingTokens"} ELSE {})
    \cup (IF isTooGeneric(cleaned) THEN {"generic"} ELSE {})
    \cup (IF containsDiffStats(cleaned) THEN {"diffStats"} ELSE {})
    \cup (IF minLength > 0 /\ Len(cleaned) < minLength THEN {"tooShort"} ELSE {})

\* needsFallback = reasons.some(reason => reason !== 'tooShort')
NeedsFallback(subject, requiredTokens, requiredTokenCount, minLength) ==
    RejectReasons(Trim(subject), requiredTokens, requiredTokenCount, minLength)
        \ {"tooShort"} # {}

ensureSpecificSubject(subject, requiredTokens, requiredTokenCount, minLength, maxLength, diff, promptConfig, lang) ==
    IF NeedsFallback(subject, requiredTokens, requiredTokenCount, minLength)
    THEN buildSpecificSubject(diff, requiredTokens, requiredTokenCount, promptConfig,
                              lang, minLength, maxLength)
    ELSE applySubjectStyle(
             IF minLength > 0 \/ maxLength > 0
             THEN ensureSubjectLength(Trim(subject), diff, requiredTokens, lang,
                                      minLength, maxLength)
             ELSE Trim(subject),
             promptConfig, lang)

-----------------------------------------------------------------------------
(* Type, scope, parsing of the completion, assembly                        *)

\* (file.additions + file.deletions) || file.weight || 1
TypeWeight(file) ==
    IF file.additions + file.deletions # 0 THEN file.additions + file.deletions
    ELSE IF file.weight # 0 THEN file.weight ELSE 1

\* the bucket deriveType puts a file in
BucketOf(lower) ==
    IF Includes(lower, <<"t","e","s","t">>) \/ Includes(lower, <<"s","p","e","c">>) THEN "test"
       ELSE IF \/ Includes(lower, <<"d","o","c","s">>) \/ Includes(lower, <<"r","e","a","d","m","e">>)
               \/ EndsWith(lower, <<".","m","d">>)
       THEN "docs"
       ELSE IF \/ Includes(lower, <<"c","o","n","f","i","g">>) \/ EndsWith(lower, <<".","y","m","l">>)
               \/ EndsWith(lower, <<".","y","a","m","l">>) \/ EndsWith(lower, <<".","j","s","o","n">>)
               \/ EndsWith(lower, <<".","t","o","m","l">>) \/ EndsWith(lower, <<".","i","n","i">>)
               \/ Includes(lower, <<"c","m","a","k","e">>) \/ Includes(lower, <<"m","a","k","e","f","i","l","e">>)
               \/ StartsWith(lower, <<"d","i","s","t","/">>) \/ Includes(lower, <<"/","d","i","s","t","/">>)
               \/ StartsWith(lower, <<"b","u","i","l","d","/">>) \/ Includes(lower, <<"/","b","u","i","l","d","/">>)
       THEN "config"
       ELSE "code"
Bucket(file) == BucketOf(ToLower(file.path))

RECURSIVE SumWeights(_, _)
SumWeights(files, bucket) ==
    IF files = <<>> THEN 0
    ELSE (IF bucket = "all" \/ Bucket(Head(files)) = bucket THEN TypeWeight(Head(files)) ELSE 0)
         + SumWeights(Tail(files), bucket)

\* ratio(value) > 0.5 with ratio = total > 0 ? value / total : 0
OverHalf(value, total) == total > 0 /\ 2 * value > total

\* the same with refactor chosen on a tie of deletions and additions too
DeriveTypeOfOnTie(diff, total) ==
    IF OverHalf(SumWeights(diff.files, "test"), total) THEN <<"t","e","s","t">>
    ELSE IF OverHalf(SumWeights(diff.files, "docs"), total) THEN <<"d","o","c","s">>
    ELSE IF OverHalf(SumWeights(diff.files, "config"), total) THEN <<"c","h","o","r","e">>
    ELSE IF diff.totalDeletions >= diff.totalAdditions THEN <<"r","e","f","a","c","t","o","r">>
    ELSE <<"f","e","a","t">>

DeriveTypeOf(diff, total) ==
    IF OverHalf(SumWeights(diff.files, "test"), total) THEN <<"t","e","s","t">>
    ELSE IF OverHalf(SumWeights(diff.files, "docs"), total) THEN <<"d","o","c","s">>
    ELSE IF OverHalf(SumWeights(diff.files, "config"), total) THEN <<"c","h","o","r","e">>
    ELSE IF diff.totalDeletions > diff.totalAdditions THEN <<"r","e","f","a","c","t","o","r">>
    ELSE <<"f","e","a","t">>
deriveType(diff) == DeriveTypeOf(diff, SumWeights(diff.files, "all"))

deriveScope(filePath) == IF HasSlash(filePath) THEN FirstSegment(filePath) ELSE <<"c","o","r","e">>

\* the 1-based positions where the run of backticks holding position i starts
\* and ends
RECURSIVE FenceRunStart(_, _)
FenceRunStart(s, i) == IF i > 1 /\ s[i - 1] = "BT" THEN FenceRunStart(s, i - 1) ELSE i
RECURSIVE FenceRunEnd(_, _)
FenceRunEnd(s, i) == IF i < Len(s) /\ s[i + 1] = "BT" THEN FenceRunEnd(s, i + 1) ELSE i

\* of a run of n backticks that starts at position a the first 3 * (n div 3) go
InFence(i, a, n) == i - a < 3 * (n \div 3)

\* s.replace(/```/g, '').replace(/\r/g, '')
RemoveFences(s) ==
    Flatten([i \in 1..Len(s) |->
        IF s[i] = "BT" /\ InFence(i, FenceRunStart(s, i),
                                  FenceRunEnd(s, i) - FenceRunStart(s, i) + 1)
        THEN <<>> ELSE <<s[i]>>])
RemoveCr(s) == FilterIn(s, Range(s) \ {"CR"})

\* s.split('\n')
RECURSIVE SplitLines(_)
SplitLines(s) ==
    IF ~Includes(s, <<"LF">>) THEN <<s>>
    ELSE <<SliceTo(s, IndexOf(s, <<"LF">>))>> \o SplitLines(SliceFrom(s, IndexOf(s, <<"LF">>) + 1))

\* while (lines.length && lines[0].trim().length === 0) lines.shift()
RECURSIVE DropBlankLines(_)
DropBlankLines(lines) ==
    IF lines # <<>> /\ Trim(Head(lines)) = <<>> THEN DropBlankLines(Tail(lines)) ELSE lines

\* s.replace(/^[-*]\s+/, '') and, for body lines, /^[-*•]\s+/ ("BUL" is U+2022)
StripBullet(s, marks) ==
    IF Len(s) >= 2 /\ s[1] \in marks /\ IsSpace(s[2]) THEN TrimStart(Tail(s)) ELSE s

QuoteChars == {"DQ", "'", "BT"}
\* s.replace(/^["'`]+/, '').replace(/["'`]+$/, '')
RECURSIVE StripLeadingQuotes(_)
StripLeadingQuotes(s) ==
    IF s # <<>> /\ Head(s) \in QuoteChars THEN StripLeadingQuotes(Tail(s)) ELSE s
RECURSIVE StripTrailingQuotes(_)
StripTrailingQuotes(s) ==
    IF s # <<>> /\ s[Len(s)] \in QuoteChars
    THEN StripTrailingQuotes(SubSeq(s, 1, Len(s) - 1)) ELSE s

\* lines.map(line => line.trimEnd()) and lines.map(line => line.trim())
TrimEndAll(lines) == [i \in 1..Len(lines) |-> TrimEnd(lines[i])]
TrimAll(lines) == [i \in 1..Len(lines) |-> Trim(lines[i])]

\* .map(line => line.replace(/^[-*•]\s+/, '').trim()).filter(Boolean)
BodyOf(trimmedRest) ==
    NonEmpty([i \in 1..Len(trimmedRest) |->
                 Trim(StripBullet(trimmedRest[i], {"-", "*", "BUL"}))])

\* sanitizeCommitOutput from the first line and the lines after it
SanitizedParts(first, rest) ==
    [subjectLine |-> Trim(StripTrailingQuotes(StripLeadingQuotes(
                              StripBullet(first, {"-", "*"})))),
     bodyLines |-> BodyOf(NonEmpty(TrimAll(DropBlankLines(rest)))),
     rawFirstLine |-> first]

\* sanitizeCommitOutput from the lines left after the leading blank ones
SanitizedLines(lines) ==
    IF lines = <<>> THEN SanitizedParts(<<>>, <<>>)
    ELSE SanitizedParts(Head(lines), Tail(lines))

sanitizeCommitOutput(raw) ==
    SanitizedLines(DropBlankLines(TrimEndAll(SplitLines(RemoveCr(RemoveFences(raw))))))

\* the first line of the message: `${type}(${scope}): ${cleanSubject}`
FormatHead(type, scope, cleanSubject) ==
    [type |-> type, scope |-> scope, subject |-> cleanSubject,
     head |-> type \o <<"(">> \o scope \o <<")",":"," ">> \o cleanSubject]

\* formatCommitMessage, up to the first line of the message
formatCommitMessage(type, scope, subject) == FormatHead(type, scope, Trim(CollapseWs(subject)))

\* stripSubjectNoise(parsed.subject ?? options.subjectLine)
SubjectOfParsed(p, subjectLine) ==
    stripSubjectNoise(IF p.matched THEN p.subject ELSE subjectLine)

\* the subject normalizeCommitMessage hands to ensureSpecificSubject
SubjectRaw(subjectLine) == SubjectOfParsed(parseCommitMessage(subjectLine), subjectLine)

\* the same with the scope hint always
ScopeHintAlways(p, scopeHint) == scopeHint

\* parsed.scope && parsed.scope.trim().length > 0 ? parsed.scope.trim() : scopeHint
ScopeOfParsed(p, scopeHint) ==
    IF p.matched /\ p.hasScope /\ Trim(p.scope) # <<>> THEN Trim(p.scope) ELSE scopeHint

\* the same with the type the completion declares, when it declares one
AssembleMessageDeclaredType(o, subject) ==
    formatCommitMessage(IF parseCommitMessage(o.subjectLine).matched
                        THEN parseCommitMessage(o.subjectLine).type ELSE o.typeHint,
                        ScopeOfParsed(parseCommitMessage(o.subjectLine), o.scopeHint),
                        subject)

\* the end of normalizeCommitMessage: scope and first line, given the subject
\* ensureSpecificSubject returned
AssembleMessage(o, subject) ==
    formatCommitMessage(o.typeHint,
                        ScopeOfParsed(parseCommitMessage(o.subjectLine), o.scopeHint),
                        subject)

\* the call of ensureSpecificSubject on the options of normalizeCommitMessage
EnsuredSubject(o, subjectRaw) ==
    ensureSpecificSubject(subjectRaw, o.requiredTokens, o.requiredTokenCount,
                          o.minSubjectLength, o.maxSubjectLength,
                          o.diff, o.promptConfig, o.lang)

\* normalizeCommitMessage, up to the subject line of the message it returns
normalizeCommitMessage(o) == AssembleMessage(o, EnsuredSubject(o, SubjectRaw(o.subjectLine)))

\* buildFallbackOutput: the subject line of the synthetic draft
buildFallbackOutput(diff, promptConfig, lang) ==
    [subjectLine |-> deriveDetailedSubject(diff, promptConfig, lang)]

\* `${prefix} ${subjectLine}`.trim() and `${subjectLine} ${suffix}`.trim()
WithPrefix(line, prefix) == IF prefix # <<>> THEN Trim(prefix \o <<" ">> \o line) ELSE line
WithSuffix(line, suffix) == IF suffix # <<>> THEN Trim(line \o <<" ">> \o suffix) ELSE line

\* applyPromptConfig on the first line of the message
applyPromptConfig(message, promptConfig) ==
    [message EXCEPT !.head = WithSuffix(WithPrefix(Trim(message.head), promptConfig.prefix),
                                        promptConfig.suffix)]

-----------------------------------------------------------------------------
(* Body lines: normalizeBodyLines and buildBodyLines                        *)

\* an absent file (file?: FileSummary left undefined)
NoFile ==
    [path |-> <<>>, changeType |-> "none", additions |-> 0, deletions |-> 0,
     context |-> <<>>, highlights |-> <<>>, keywords |-> <<>>, weight |-> 0]

\* the verbs of hasActionVerb, for zh (tested anywhere in the line) and for
\* en (tested as whole words, ignoring case)
ZhActionVerbs ==
    { <<"ZHxin","ZHzeng">>, <<"ZHtian","ZHjia">>, <<"ZH1","ZH2">>, <<"ZHtiao","ZHzheng">>,
      <<"ZHxiu","ZHfu">>, <<"ZHyou","ZHhua">>, <<"ZHwan","ZHshan">>, <<"ZHbu","ZHchong">>,
      <<"ZHzhi","ZHchi">>, <<"ZHjian","ZHrong">>, <<"ZHzhong","ZHgou">>, <<"ZHbi","ZHmian">>,
      <<"ZHchu","ZHli">>, <<"ZHgui","ZHfan">>, <<"ZHzeng","ZHqiang">>, <<"ZHyi","ZHremove">>,
      <<"ZHshan","ZHremove">>, <<"ZHzhong","ZHming","ZHname">> }
EnActionVerbs ==
    { <<"a","d","d">>, <<"c","r","e","a","t","e">>, <<"u","p","d","a","t","e">>, <<"a","d","j","u","s","t">>, <<"f","i","x">>, <<"r","e","s","o","l","v","e">>, <<"r","e","f","i","n","e">>,
      <<"i","m","p","r","o","v","e">>, <<"o","p","t","i","m","i","z","e">>, <<"r","e","m","o","v","e">>, <<"r","e","n","a","m","e">>, <<"s","u","p","p","o","r","t">>, <<"a","l","i","g","n">>,
      <<"d","o","c","u","m","e","n","t">>, <<"r","e","f","a","c","t","o","r">>, <<"h","a","n","d","l","e">>, <<"g","u","a","r","d">>, <<"n","o","r","m","a","l","i","z","e">>, <<"e","x","t","e","n","d">>,
      <<"c","l","e","a","n">> }

hasActionVerb(line, lang) ==
    IF lang = "zh" THEN \E v \in ZhActionVerbs : Includes(line, v)
    ELSE \E v \in EnActionVerbs : \E i \in 1..Len(line) : WordAt(line, v, i)

\* the verb pickActionVerb returns, in the language of the interface
Verb(lang, zh, en) == IF lang = "zh" THEN zh ELSE en

\* pickActionVerb on the lower-cased text `${hint} ${highlights.join(' ')}`
ActionVerbOf(text, changeType, lang) ==
    IF \E p \in {<<"b","u","g">>, <<"f","i","x">>, <<"c","r","a","s","h">>, <<"i","s","s","u","e">>} : Includes(text, p)
    THEN Verb(lang, <<"ZHxiu","ZHfu">>, <<"f","i","x">>)
    ELSE IF \E p \in {<<"p","e","r","f">>, <<"o","p","t","i","m","i","s","e">>, <<"o","p","t","i","m","i","z","e">>, <<"l","a","t","e","n","c","y">>, <<"c","a","c","h","e">>} : Includes(text, p)
    THEN Verb(lang, <<"ZHyou","ZHhua">>, <<"o","p","t","i","m","i","z","e">>)
    ELSE IF \E p \in {<<"d","o","c">>, <<"r","e","a","d","m","e">>, <<"d","o","c","s">>} : Includes(text, p)
    THEN Verb(lang, <<"ZHbu","ZHchong">>, <<"d","o","c","u","m","e","n","t">>)
    ELSE IF \E p \in {<<"t","e","s","t">>, <<"s","p","e","c">>} : Includes(text, p)
    THEN Verb(lang, <<"ZH1","ZH2">>, <<"u","p","d","a","t","e">>)
    ELSE IF changeType = "added" THEN Verb(lang, <<"ZHxin","ZHzeng">>, <<"a","d","d">>)
    ELSE IF changeType = "deleted" THEN Verb(lang, <<"ZHshan","ZHremove">>, <<"r","e","m","o","v","e">>)
    ELSE IF changeType = "renamed" THEN Verb(lang, <<"ZHzhong","ZHming","ZHname">>, <<"r","e","n","a","m","e">>)
    ELSE Verb(lang, <<"ZH1","ZH2">>, <<"u","p","d","a","t","e">>)

pickActionVerb(file, hint, lang) ==
    ActionVerbOf(ToLower(hint \o <<" ">> \o Join(file.highlights, <<" ">>)),
                 file.changeType, lang)

\* `${head} ${action} ${tail}`.trim(), for zh `${head} ${action}${tail}`.trim()
VerbAfter(head, action, tail, lang) ==
    IF lang = "zh" THEN Trim(head \o <<" ">> \o action \o tail)
    ELSE Trim(head \o <<" ">> \o action \o <<" ">> \o tail)

\* ensureActionVerb once the line is known to lack a verb; colonIndex is
\* line.indexOf(':')
WithActionVerb(line, action, colonIndex, lang) ==
    IF colonIndex > -1 /\ colonIndex < Len(line) - 1
    THEN VerbAfter(SliceTo(line, colonIndex + 1), action,
                   Trim(SliceFrom(line, colonIndex + 1)), lang)
    ELSE IF lang = "zh" THEN action \o line ELSE action \o <<" ">> \o line

ensureActionVerb(line, file, lang) ==
    IF hasActionVerb(line, lang) THEN line
    ELSE WithActionVerb(line, pickActionVerb(file, line, lang), IndexOf(line, <<":">>), lang)

\* files.find(file => base && lowerHead.includes(base)), undefined as NoFile
RECURSIVE FindFile(_, _)
FindFile(lowerHead, files) ==
    IF files = <<>> THEN NoFile
    ELSE IF LastSegment(Head(files).path) # <<>>
            /\ Includes(lowerHead, ToLower(LastSegment(Head(files).path)))
    THEN Head(files)
    ELSE FindFile(lowerHead, Tail(files))

\* line.split(':')[0].trim()
HeadOfLine(line) ==
    Trim(IF Includes(line, <<":">>) THEN SliceTo(line, IndexOf(line, <<":">>)) ELSE line)

findFileForLine(line, files) ==
    IF HeadOfLine(line) = <<>> THEN NoFile ELSE FindFile(ToLower(HeadOfLine(line)), files)

\* addDetail: the trimmed value joins the details unless empty or present
addDetail(details, value) ==
    IF Trim(value) = <<>> \/ Trim(value) \in Range(details) THEN details
    ELSE Append(details, Trim(value))

RECURSIVE AddDetails(_, _)
AddDetails(details, values) ==
    IF values = <<>> THEN details
    ELSE AddDetails(addDetail(details, Head(values)), Tail(values))

\* if (details.length < 3) addDetail(value)
AddIfRoom(details, value) == IF Len(details) < 3 THEN addDetail(details, value) ELSE details

collectFileDetails(file) ==
    Take(AddIfRoom(
             AddIfRoom(
                 AddIfRoom(AddDetails(<<>>, Take(file.keywords, 3)),
                           IF file.context # <<>> THEN file.context[1] ELSE <<>>),
                 CleanHighlight(FirstSpecificHighlight(file.highlights))),
             inferDefaultAction(file.path)),
         3)

\* the joiner of the details of a body line
DetailJoiner(lang) == IF lang = "zh" THEN <<"DUN">> ELSE <<","," ">>

formatBodyLine(base, details, file, lang) ==
    IF lang = "zh"
    THEN Trim(base \o <<":"," ">> \o pickActionVerb(file, Join(details, <<" ">>), lang)
              \o Join(NonEmpty(details), DetailJoiner(lang)))
    ELSE Trim(base \o <<":"," ">> \o pickActionVerb(file, Join(details, <<" ">>), lang)
              \o <<" ">> \o Join(NonEmpty(details), DetailJoiner(lang)))

\* pushUnique on the pair of lines and seen
NoLines == [lines |-> <<>>, seen |-> {}]
pushUnique(acc, line) ==
    IF Trim(line) = <<>> \/ ToLower(Trim(line)) \in acc.seen THEN acc
    ELSE [lines |-> Append(acc.lines, Trim(line)),
          seen |-> acc.seen \cup {ToLower(Trim(line))}]

\* first loop of buildBodyLines: one line per file that has details
RECURSIVE LinePerFile(_, _, _, _)
LinePerFile(acc, files, maxLines, lang) ==
    IF files = <<>> \/ Len(acc.lines) >= maxLines THEN acc
    ELSE IF collectFileDetails(Head(files)) = <<>>
    THEN LinePerFile(acc, Tail(files), maxLines, lang)
    ELSE LinePerFile(pushUnique(acc, formatBodyLine(LastSegment(Head(files).path),
                                                    collectFileDetails(Head(files)),
                                                    Head(files), lang)),
                     Tail(files), maxLines, lang)

\* second loop: one line per detail of a file, while fewer than minLines
RECURSIVE LinePerDetail(_, _, _, _, _)
LinePerDetail(acc, file, details, minLines, lang) ==
    IF details = <<>> \/ Len(acc.lines) >= minLines THEN acc
    ELSE LinePerDetail(pushUnique(acc, formatBodyLine(LastSegment(file.path),
                                                      <<Head(details)>>, file, lang)),
                       file, Tail(details), minLines, lang)

RECURSIVE LinesPerDetail(_, _, _, _)
LinesPerDetail(acc, files, minLines, lang) ==
    IF files = <<>> \/ Len(acc.lines) >= minLines THEN acc
    ELSE LinesPerDetail(LinePerDetail(acc, Head(files), collectFileDetails(Head(files)),
                                      minLines, lang),
                        Tail(files), minLines, lang)

\* third loop: `Update ${fragment}` per detail fragment, while fewer than minLines
RECURSIVE LinePerFragment(_, _, _, _)
LinePerFragment(acc, fragments, minLines, lang) ==
    IF fragments = <<>> \/ Len(acc.lines) >= minLines THEN acc
    ELSE LinePerFragment(pushUnique(acc, (IF lang = "zh" THEN <<"ZH1","ZH2"," ">>
                                          ELSE <<"U","p","d","a","t","e"," ">>) \o Head(fragments)),
                         Tail(fragments), minLines, lang)

\* lines.slice(0, maxLines).map(line => ensureActionVerb(line, undefined))
FinishLines(lines, maxLines, lang) ==
    [i \in 1..Min(Len(lines), maxLines) |-> ensureActionVerb(lines[i], NoFile, lang)]

buildBodyLines(diff, minLines, maxLines, lang) ==
    FinishLines(
        LinePerFragment(
            LinesPerDetail(LinePerFile(NoLines, RankFiles(diff.files), maxLines, lang),
                           RankFiles(diff.files), minLines, lang),
            buildDetailFragments(diff), minLines, lang).lines,
        maxLines, lang)

\* the filters of normalizeBodyLines on one line, after white space is collapsed
KeepsBodyLine(line) == line # <<>> /\ ~containsDiffStats(line) /\ ~isTooGeneric(line)

RECURSIVE CleanedBodyLines(_)
CleanedBodyLines(bodyLines) ==
    IF bodyLines = <<>> THEN <<>>
    ELSE (IF KeepsBodyLine(Trim(CollapseWs(Head(bodyLines))))
          THEN <<Trim(CollapseWs(Head(bodyLines)))>> ELSE <<>>)
         \o CleanedBodyLines(Tail(bodyLines))

\* the first line of every lower-case form
RECURSIVE UniqueBodyLines(_, _)
UniqueBodyLines(cleaned, seen) ==
    IF cleaned = <<>> THEN <<>>
    ELSE IF ToLower(Head(cleaned)) \in seen THEN UniqueBodyLines(Tail(cleaned), seen)
    ELSE <<Head(cleaned)>> \o UniqueBodyLines(Tail(cleaned), seen \cup {ToLower(Head(cleaned))})

EnrichedBodyLines(unique, files, lang) ==
    [i \in 1..Len(unique) |-> ensureActionVerb(unique[i], findFileForLine(unique[i], files), lang)]

BodyOfEnriched(enriched, diff, lang) ==
    IF Len(enriched) >= 8 THEN Take(enriched, 12) ELSE buildBodyLines(diff, 8, 12, lang)

normalizeBodyLines(bodyLines, diff, lang) ==
    BodyOfEnriched(EnrichedBodyLines(UniqueBodyLines(CleanedBodyLines(bodyLines), {}),
                                     diff.files, lang),
                   diff, lang)

\* what generateCommitMessage derives from the diff before it calls the model
GenHints(diff) ==
    [typeHint |-> deriveType(diff),
     scopeHint |-> IF diff.files # <<>> THEN deriveScope(diff.files[1].path) ELSE <<"r","e","p","o">>,
     requiredTokenCount |-> IF Len(diff.files) > 10 THEN 2 ELSE 1,
     requiredTokens |-> buildRequiredTokens(Take(RankFiles(diff.files), 3))]

OptionsOf(h, subjectLine, diff, promptConfig, lang) ==
    [subjectLine |-> subjectLine,
     typeHint |-> h.typeHint,
     scopeHint |-> h.scopeHint,
     requiredTokens |-> h.requiredTokens,
     requiredTokenCount |-> h.requiredTokenCount,
     minSubjectLength |-> minSubjectLength,
     maxSubjectLength |-> maxSubjectLength,
     diff |-> diff,
     promptConfig |-> promptConfig,
     lang |-> lang]

\* the options generateCommitMessage passes to normalizeCommitMessage
NormalizeOptions(subjectLine, diff, promptConfig, lang) ==
    OptionsOf(GenHints(diff), subjectLine, diff, promptConfig, lang)

\* baseOutput.subjectLine: the sanitized subject line, or the synthetic one
BaseSubjectLine(sanitized, diff, promptConfig, lang) ==
    IF sanitized.subjectLine # <<>> THEN sanitized.subjectLine
    ELSE buildFallbackOutput(diff, promptConfig, lang).subjectLine

\* the inner catch of generateCommitMessage: the synthetic draft is the input
FallbackSubjectLine(diff, promptConfig, lang) ==
    buildFallbackOutput(diff, promptConfig, lang).subjectLine

-----------------------------------------------------------------------------
(* SpecNorm: the normalizer applied to bounded diffs and completions        *)

\* a FileSummary as preprocessDiff builds it
File(path, additions, deletions, keywords, context, highlights, changeType) ==
    [path |-> path, changeType |-> changeType, additions |-> additions,
     deletions |-> deletions, context |-> context, highlights |-> highlights,
     keywords |-> keywords, weight |-> 1]

HlTs == <<"t","y","p","e","s","c","r","i","p","t"," ","s","o","u","r","c","e","s"," ","u","p","d","a","t","e","d">>
HlSrc == <<"s","r","c"," ","m","o","d","u","l","e"," ","u","p","d","a","t","e","d">>

\* the files diffs are made of, with the highlights computeHighlights gives them
FilePool ==
    << File(<<"s","r","c","/","a","u","t","h","/","l","o","g","i","n",".","t","s">>, 40, 5, <<<<"v","a","l","i","d","a","t","e","T","o","k","e","n">>>>, <<>>, <<HlTs, HlSrc>>, "modified"),
       File(<<"s","r","c","/","a","u","t","h","/","s","e","s","s","i","o","n",".","t","s">>, 3, 1, <<>>, <<<<"r","e","f","r","e","s","h","S","e","s","s","i","o","n">>>>, <<HlTs, HlSrc>>, "modified"),
       File(<<"m","i","s","c",".","t","s">>, 2, 0, <<>>, <<>>, <<HlTs>>, "added"),
       File(<<"a","b">>, 1, 0, <<>>, <<>>, <<<<"u","p","d","a","t","e"," ","a","b">>>>, "modified"),
       File(<<"l","i","b","/","A","u","t","h","e","n","t","i","c","a","t","i","o","n","S","e","s","s","i","o","n","M","a","n","a","g","e","r","F","a","c","t","o","r","y","P","r","o","v","i","d","e","r",".","t","s">>, 9, 9,
            <<<<"c","r","e","a","t","e","A","u","t","h","e","n","t","i","c","a","t","i","o","n","S","e","s","s","i","o","n","M","a","n","a","g","e","r","F","a","c","t","o","r","y">>,
              <<"A","u","t","h","e","n","t","i","c","a","t","i","o","n","S","e","s","s","i","o","n","M","a","n","a","g","e","r","O","p","t","i","o","n","s">>>>, <<>>,
            <<HlTs, <<"l","i","b"," ","m","o","d","u","l","e"," ","u","p","d","a","t","e","d">>>>, "modified"),
       File(<<"R","E","A","D","M","E",".","m","d">>, 20, 0, <<>>, <<>>, <<<<"d","o","c","s"," ","u","p","d","a","t","e","d">>>>, "modified"),
       File(<<"s","r","c","/","a","/","i","n","d","e","x",".","t","s">>, 1, 1, <<>>, <<>>, <<HlTs, HlSrc>>, "modified"),
       File(<<"s","r","c","/","b","/","i","n","d","e","x",".","t","s">>, 1, 1, <<>>, <<>>, <<HlTs, HlSrc>>, "modified"),
       File(<<"t","e","s","t","/","p","a","r","s","e","r",".","t","e","s","t",".","t","s">>, 5, 0, <<>>, <<>>, <<<<"t","e","s","t","s"," ","u","p","d","a","t","e","d">>, HlTs>>, "added"),
       File(<<"p","a","r","s","e","r",".","r","s">>, 2, 7, <<>>, <<<<"p","a","r","s","e","_","e","x","p","r">>>>, <<<<"b","u","g"," ","f","i","x">>>>, "modified"),
       File(<<"b","u","i","l","d","/","o","u","t",".","b","i","n">>, 0, 0, <<>>, <<>>, <<<<"b","i","n","a","r","y"," ","f","i","l","e"," ","u","p","d","a","t","e","d">>>>, "binary"),
       File(<<"C","M","a","k","e","L","i","s","t","s",".","t","x","t">>, 2, 2, <<<<"s","m","a","r","t","c","o","m","m","i","t">>>>, <<>>, <<<<"c","m","a","k","e"," ","c","o","n","f","i","g"," ","u","p","d","a","t","e","d">>>>, "modified") >>

\* the largest number of files of a diff
MaxFiles == 11

\* the files pool[start], pool[start + 1], ... (cyclically), n of them
Window(start, n) ==
    [i \in 1..n |-> FilePool[((start + i - 2) % Len(FilePool)) + 1]]

RECURSIVE SumField(_, _)
SumField(files, field) ==
    IF files = <<>> THEN 0 ELSE Head(files)[field] + SumField(Tail(files), field)

\* the part of a PreprocessResult the normalizer reads (preprocessDiff keeps
\* the totals equal to the sums over files)
DiffOf(files) ==
    [files |-> files,
     totalAdditions |-> SumField(files, "additions"),
     totalDeletions |-> SumField(files, "deletions")]

Diffs ==
    {DiffOf(<<>>)} \cup
    {DiffOf(Window(s, 1)) : s \in 1..Len(FilePool)} \cup
    {DiffOf(Window(s, n)) : s \in {1, 5}, n \in 2..Min(MaxFiles, Len(FilePool))}

\* raw model completions
Completions ==
    { <<>>,
      <<"f","i","x",":"," ","s","t","u","f","f">>,
      <<"f","e","a","t","(","a","u","t","h",")",":"," ","a","d","d"," ","v","a","l","i","d","a","t","e","T","o","k","e","n"," ","c","h","e","c","k"," ","t","o"," ","l","o","g","i","n",".","t","s">>,
      <<"BT","BT","BT","LF","-"," ","DQ">>
        \o <<"r","e","f","a","c","t","o","r","(","c","o","r","e",")",":"," ","i","m","p","r","o","v","e"," ","c","r","e","a","t","e","A","u","t","h","e","n","t","i","c","a","t","i","o","n","S","e","s","s","i","o","n","M","a","n","a","g","e","r","F","a","c","t","o","r","y",","," ","r","e","t","r","y"," ","o","n"," ","f","a","i","l","u","r","e">>
        \o <<"DQ","LF","LF","-"," ">> \o <<"r","e","t","r","y"," ","t","w","i","c","e">>,
      <<"f","i","x","(","p","a","r","s","e","r",")",":"," ","h","a","n","d","l","e"," ","p","a","r","s","e","_","e","x","p","r"," ","e","r","r","o","r","s"," ","i","n"," ","p","a","r","s","e","r",".","r","s",";"," ","k","e","e","p"," ","t","h","e"," ","o","l","d"," ","r","e","c","o","v","e","r","y"," ","p","a","t","h",","," ","r","e","p","o","r","t"," ","t","h","e"," ","s","p","a","n"," ","o","f"," ","e","v","e","r","y"," ","b","a","d"," ","t","o","k","e","n",":"," ","n","o"," ","m","o","r","e"," ","p","a","n","i","c","s">>,
      <<"c","h","o","r","e",":"," ","l","o","g","i","n",".","t","s"," ","(","+","4","0","/","-","5",")"," ","2"," ","f","i","l","e","s"," ","c","h","a","n","g","e","d">>,
      <<"f","i","x","(","a","u","t","h",")",":"," ","a","d","d"," ","v","a","l","i","d","a","t","e","T","o","k","e","n"," ","c","h","e","c","k"," ","t","o"," ","l","o","g","i","n",".","t","s">>,
      <<"f","e","a","t","("," ","u","i"," ",")",":"," ","r","e","w","o","r","k"," ","v","a","l","i","d","a","t","e","T","o","k","e","n"," ","i","n"," ","l","o","g","i","n",".","t","s">>,
      <<"f","i","x","("," "," ",")",":"," ","r","e","p","a","i","r"," ","t","h","e"," ","p","a","r","s","e","_","e","x","p","r"," ","l","o","o","p"," ","i","n"," ","p","a","r","s","e","r",".","r","s">> }

PromptConfigs ==
    { [subjectStyle |-> "imperative", prefix |-> <<>>, suffix |-> <<>>],
      [subjectStyle |-> "sentence", prefix |-> <<"[","b","o","t","]">>, suffix |-> <<>>] }

\* inputs of a trimToMax call
TrimValues ==
    { <<"u","p","d","a","t","e"," ","p","a","r","s","e","r",","," ","l","e","x","e","r",","," ","a","n","d"," ","t","h","e"," ","r","e","s","t"," ","o","f"," ","i","t">>,
      <<"f","i","x",":"," ","p","a","r","s","e","r",".","r","s",":"," ","h","a","n","d","l","e"," ","e","r","r","o","r","s"," ","i","n"," ","t","h","e"," ","l","e","x","e","r">>,
      <<"u","p","d","a","t","e"," ","p","a","r","s","e","r",".","r","s"," ","a","n","d"," ","l","e","x","e","r",".","r","s"," ","h","a","n","d","l","i","n","g">>,
      <<"u","p","d","a","t","e"," ","a",","," ","b">> \o <<" ","EM"," ">> \o <<"a","n","d"," ","t","h","e"," ","r","e","m","a","i","n","i","n","g"," ","p","a","r","t","s",";"," ","d","o","n","e">>,
      <<"r","e","n","a","m","e"," ","p","a","r","s","e","r"," ","m","o","d","u","l","e",";","l","e","x","e","r",",","t","o","k","e","n","s"," ","s","t","a","y">> }
TrimLimits == {12, 20, 30}

\* inputs of a matchRequiredTokens call
MatchTokenPool ==
    << <<"s","r","c","/","f","o","o","/","b","a","r",".","t","s">>, <<".","/","a","b",".","c">>, <<" ","#","P","a","r","s","e","r",".","R","S"," ">>, <<".","e","n","v">>, <<"l","i","b","/">>, <<"a",".","b">>,
       <<"v","a","l","i","d","a","t","e","T","o","k","e","n">> >>

MaxTokens == 2

MatchTokenLists ==
    UNION {[1..n -> Range(MatchTokenPool)] : n \in 0..MaxTokens}

MatchSubjects ==
    { <<"u","p","d","a","t","e"," ","b","a","r">>, <<"o","n","l","y"," ","f","o","o"," ","h","e","r","e">>, <<"f","i","x"," ","P","a","r","s","e","r",".","r","s"," ","e","r","r","o","r","s">>,
      <<"r","e","b","a","r"," ","t","h","e"," ","a","b"," ","c"," ","e","n","v">>, <<"c","a","l","l"," ","v","a","l","i","d","a","t","e","t","o","k","e","n"," ","i","n"," ","l","i","b">>, <<"S","r","c","/","F","o","o","/","B","a","r",".","t","s">> }

\* a FileSummary of a diff whose hints are derived: only the path and the
\* counts matter to deriveType, deriveScope and the ranking
HintFile(path, additions, deletions, changeType) ==
    File(path, additions, deletions, <<>>, <<>>, <<>>, changeType)

HintFilePool ==
    << HintFile(<<"n","o","t","e","s",".","m","d">>, 2, 0, "modified"),
       HintFile(<<"g","u","i","d","e","/","l","a","t","e","s","t",".","m","d">>, 1, 0, "added"),
       HintFile(<<"s","r","c","/","a","u","t","h","/","l","o","g","i","n",".","t","s">>, 40, 5, "modified"),
       HintFile(<<"s","r","c","/","a","u","t","h","/","s","e","s","s","i","o","n",".","t","s">>, 3, 1, "modified"),
       HintFile(<<"l","i","b","/","b",".","t","s">>, 1, 6, "modified"),
       HintFile(<<"m","a","i","n",".","r","s">>, 2, 7, "modified"),
       HintFile(<<"a","p","p","/","i","n","d","e","x",".","t","s">>, 4, 4, "modified"),
       HintFile(<<"t","e","s","t","/","x",".","t","s">>, 5, 0, "added"),
       HintFile(<<"c","o","n","f","i","g",".","j","s","o","n">>, 2, 2, "modified"),
       HintFile(<<"i","m","g","/","l","o","g","o",".","p","n","g">>, 0, 0, "binary") >>

\* the largest number of files of such a diff
MaxHintFiles == 3

HintDiffs ==
    {DiffOf([i \in 1..Len(choice) |-> HintFilePool[choice[i]]]) :
        choice \in UNION {[1..n -> 1..Len(HintFilePool)] : n \in 0..MaxHintFiles}}

\* body lines a model writes under the subject
BodyLinePool ==
    << <<"l","o","g","i","n",".","t","s",":"," ","a","d","d"," ","v","a","l","i","d","a","t","e","T","o","k","e","n"," ","c","h","e","c","k">>,
       <<" "," ","r","e","t","r","y"," "," "," ","t","h","e"," ","r","e","q","u","e","s","t"," ","t","w","i","c","e"," ">>,
       <<"R","e","t","r","y"," ","t","h","e"," ","r","e","q","u","e","s","t"," ","t","w","i","c","e">>,
       <<"p","a","r","s","e","r",".","r","s",":"," ","p","a","r","s","e","_","e","x","p","r"," ","e","r","r","o","r","s"," ","a","r","e"," ","r","e","p","o","r","t","e","d">>,
       <<"m","i","s","c"," ","c","l","e","a","n","u","p","s"," ","i","n"," ","s","e","v","e","r","a","l"," ","p","l","a","c","e","s">>,
       <<"2"," ","f","i","l","e","s"," ","c","h","a","n","g","e","d",","," ","4","5"," ","i","n","s","e","r","t","i","o","n","s","(","+",")">>,
       <<"s","h","o","r","t">>,
       <<"s","e","s","s","i","o","n",".","t","s",":"," ","r","e","f","r","e","s","h","S","e","s","s","i","o","n"," ","k","e","e","p","s"," ","t","h","e"," ","c","o","o","k","i","e">>,
       <<"R","E","A","D","M","E",".","m","d",":"," ","d","e","s","c","r","i","b","e"," ","t","h","e"," ","n","e","w"," ","f","l","a","g">>,
       <<"h","a","n","d","l","e"," ","a","n"," ","e","m","p","t","y"," ","t","o","k","e","n"," ","l","i","s","t">>,
       <<"C","M","a","k","e","L","i","s","t","s",".","t","x","t",":"," ","l","i","n","k"," ","s","m","a","r","t","c","o","m","m","i","t"," ","s","t","a","t","i","c","a","l","l","y">>,
       <<"k","e","e","p"," ","t","h","e"," ","o","l","d"," ","r","e","c","o","v","e","r","y"," ","p","a","t","h">>,
       <<"r","e","p","o","r","t"," ","t","h","e"," ","s","p","a","n"," ","o","f"," ","e","v","e","r","y"," ","b","a","d"," ","t","o","k","e","n">>,
       <<"i","n","d","e","x",".","t","s"," ","e","x","p","o","r","t","s"," ","t","h","e"," ","s","e","s","s","i","o","n"," ","h","e","l","p","e","r","s">>,
       <<"c","a","c","h","e"," ","t","h","e"," ","p","a","r","s","e","d"," ","h","e","a","d","e","r">>,
       <<"o","u","t",".","b","i","n",":"," ","r","e","b","u","i","l","t"," ","f","r","o","m"," ","s","o","u","r","c","e","s">>,
       <<"m","i","s","c",".","t","s",":"," ","n","e","w"," ","h","e","l","p","e","r"," ","m","o","d","u","l","e">>,
       <<"d","o","c","u","m","e","n","t"," ","t","h","e"," ","r","e","t","r","y"," ","p","o","l","i","c","y">>,
       <<"g","u","a","r","d"," ","a","g","a","i","n","s","t"," ","a"," ","m","i","s","s","i","n","g"," ","s","c","o","p","e">> >>

\* the largest number of body lines of a completion
MaxBodyLines == 19

\* the lines pool[start], ..., n of them, cyclically
BodyWindow(start, n) ==
    [i \in 1..n |-> BodyLinePool[((start + i - 2) % Len(BodyLinePool)) + 1]]

BodyLineLists ==
    {BodyWindow(s, n) : s \in {1, 8}, n \in 0..MaxBodyLines}

\* the largest number of files of a diff whose body is normalized
MaxBodyFiles == 12

\* the diffs whose bodies are normalized
BodyDiffs ==
    {DiffOf(<<>>)} \cup {DiffOf(Window(s, n)) : s \in {1, 5, 10}, n \in {1, 3, MaxBodyFiles}}

NoNormIn == [kind |-> "none", diff |-> DiffOf(<<>>), content |-> <<>>, lang |-> "en",
             promptConfig |-> [subjectStyle |-> "imperative", prefix |-> <<>>, suffix |-> <<>>],
             value |-> <<>>, maxLength |-> 0, tokens |-> <<>>, requiredCount |-> 0,
             bodyLines |-> <<>>]

NoNormOut == [done |-> FALSE, path |-> "none", usedFallback |-> FALSE,
              resolved |-> <<>>, ensured |-> <<>>, tokens |-> <<>>, tokenCount |-> 0,
              message |-> [type |-> <<>>, scope |-> <<>>, subject |-> <<>>, head |-> <<>>],
              trimmed |-> <<>>, match |-> [ok |-> FALSE, matchedTokens |-> <<>>],
              hints |-> [typeHint |-> <<>>, scopeHint |-> <<>>],
              body |-> <<>>]

NormInputs ==
    {[NoNormIn EXCEPT !.kind = "gen", !.diff = d, !.content = c, !.lang = l,
                      !.promptConfig = pc] :
        d \in Diffs, c \in Completions, l \in {"en", "zh"}, pc \in PromptConfigs}
    \cup
    {[NoNormIn EXCEPT !.kind = "trim", !.value = v, !.maxLength = m] :
        v \in TrimValues, m \in TrimLimits}
    \cup
    {[NoNormIn EXCEPT !.kind = "match", !.value = s, !.tokens = ts, !.requiredCount = n] :
        s \in MatchSubjects, ts \in MatchTokenLists, n \in 0..MaxTokens}
    \cup
    {[NoNormIn EXCEPT !.kind = "hints", !.diff = d] : d \in HintDiffs}
    \cup
    {[NoNormIn EXCEPT !.kind = "body", !.bodyLines = b, !.diff = d, !.lang = l] :
        b \in BodyLineLists, d \in BodyDiffs, l \in {"en", "zh"}}

InitNorm ==
    /\ nIn \in NormInputs
    /\ nOut = NoNormOut
    /\ block = BlockHeader
    /\ parsed = NotParsed
    /\ PreIdle
    /\ LifeIdle

\* what normalizeCommitMessage and applyPromptConfig leave behind: resolved is
\* the subject before length control, ensured what ensureSpecificSubject
\* returned, message the first line of the result
NormRecord(path, o, usedFallback, resolved, ensured) ==
    [done |-> TRUE, path |-> path, usedFallback |-> usedFallback,
     resolved |-> resolved, ensured |-> ensured,
     tokens |-> o.requiredTokens, tokenCount |-> o.requiredTokenCount,
     message |-> applyPromptConfig(AssembleMessage(o, ensured), o.promptConfig),
     trimmed |-> <<>>, match |-> NoNormOut.match, hints |-> NoNormOut.hints,
     body |-> <<>>]

NormOfRaw(path, o, subjectRaw, usedFallback) ==
    NormRecord(path, o, usedFallback,
               IF usedFallback
               THEN SpecificBase(o.diff, o.requiredTokens, o.requiredTokenCount, o.lang).subject
               ELSE Trim(subjectRaw),
               EnsuredSubject(o, subjectRaw))

NormOfOptions(path, o, subjectRaw) ==
    NormOfRaw(path, o, subjectRaw,
              NeedsFallback(subjectRaw, o.requiredTokens, o.requiredTokenCount,
                            o.minSubjectLength))

\* normalizeCommitMessage and applyPromptConfig on subject line `line`
NormResult(path, line, in) ==
    NormOfOptions(path, NormalizeOptions(line, in.diff, in.promptConfig, in.lang),
                  SubjectRaw(line))

\* generateCommitMessage, lines 923-949: the model returned nIn.content
NormalizeCompletion ==
    /\ nIn.kind = "gen" /\ ~nOut.done
    /\ nOut' = NormResult("content",
                          BaseSubjectLine(sanitizeCommitOutput(nIn.content),
                                          nIn.diff, nIn.promptConfig, nIn.lang),
                          nIn)
    /\ UNCHANGED <<nIn, diffVars, lifeVars>>

\* generateCommitMessage, lines 901-916: both model calls threw
NormalizeFallback ==
    /\ nIn.kind = "gen" /\ ~nOut.done
    /\ nOut' = NormResult("fallback",
                          FallbackSubjectLine(nIn.diff, nIn.promptConfig, nIn.lang), nIn)
    /\ UNCHANGED <<nIn, diffVars, lifeVars>>

\* a call trimToMax(value, maxLength)
TrimCall ==
    /\ nIn.kind = "trim" /\ ~nOut.done
    /\ nOut' = [NoNormOut EXCEPT !.done = TRUE, !.path = "trim",
                                 !.trimmed = trimToMax(nIn.value, nIn.maxLength)]
    /\ UNCHANGED <<nIn, diffVars, lifeVars>>

\* a call matchRequiredTokens(subject, tokens, requiredCount)
MatchCall ==
    /\ nIn.kind = "match" /\ ~nOut.done
    /\ nOut' = [NoNormOut EXCEPT !.done = TRUE, !.path = "match",
                                 !.match = matchRequiredTokens(nIn.value, nIn.tokens,
                                                               nIn.requiredCount)]
    /\ UNCHANGED <<nIn, diffVars, lifeVars>>

\* generateCommitMessage, lines 787-788: the type and the scope hint of the diff
DeriveHints ==
    /\ nIn.kind = "hints" /\ ~nOut.done
    /\ nOut' = [NoNormOut EXCEPT !.done = TRUE, !.path = "hints",
                                 !.hints = [typeHint |-> GenHints(nIn.diff).typeHint,
                                            scopeHint |-> GenHints(nIn.diff).scopeHint]]
    /\ UNCHANGED <<nIn, diffVars, lifeVars>>

\* normalizeCommitMessage, line 1024: the body lines of the final message
NormalizeBody ==
    /\ nIn.kind = "body" /\ ~nOut.done
    /\ nOut' = [NoNormOut EXCEPT !.done = TRUE, !.path = "body",
                                 !.body = normalizeBodyLines(nIn.bodyLines, nIn.diff,
                                                             nIn.lang)]
    /\ UNCHANGED <<nIn, diffVars, lifeVars>>

NextNorm ==
    \/ NormalizeCompletion \/ NormalizeFallback \/ TrimCall \/ MatchCall \/ DeriveHints
    \/ NormalizeBody

SpecNorm == InitNorm /\ [][NextNorm]_vars

-----------------------------------------------------------------------------
(* SpecDiff: parseDiffLines applied to every block of the bounded input    *)

InitDiff ==
    /\ block \in {BlockHeader \o b : b \in HunkBodies}
    /\ parsed = NotParsed
    /\ PreIdle
    /\ nIn = NoNormIn
    /\ nOut = NoNormOut
    /\ LifeIdle

\* summarizeFileBlock's call of parseDiffLines on the block
ParseDiffLines ==
    /\ ~parsed.done
    /\ parsed' = [done |-> TRUE] @@ parseDiffLines(block)
    /\ UNCHANGED <<block, pIn, pOut, normVars, lifeVars>>

NextDiff == ParseDiffLines

SpecDiff == InitDiff /\ [][NextDiff]_vars

-----------------------------------------------------------------------------
(* Claims about the Line Reconciler                                        *)

\* the hunk lines of the block: everything after the three header lines
HunkLinesOf(b) == SubSeq(b, Len(BlockHeader) + 1, Len(b))

\* the texts of the lines the diff adds (sign "+") and removes (sign "-")
RECURSIVE TextsWithSign(_, _)
TextsWithSign(ls, sign) ==
    IF ls = <<>> THEN <<>>
    ELSE (IF Head(ls) # <<>> /\ Head(Head(ls)) = sign
          THEN <<SliceFrom(Head(ls), 1)>> ELSE <<>>)
         \o TextsWithSign(Tail(ls), sign)

CountKey(texts, k) == Cardinality({i \in 1..Len(texts) : normalizeLine(texts[i]) = k})

\* the added lines are a permutation of the removed lines, as multisets of
\* whitespace-normalized texts, and there is at least one of them
IsPureReorder(b) ==
    LET a == TextsWithSign(HunkLinesOf(b), "+")
        r == TextsWithSign(HunkLinesOf(b), "-")
    IN /\ Len(a) > 0
       /\ Len(a) = Len(r)
       /\ \A i \in 1..Len(a) :
            CountKey(a, normalizeLine(a[i])) = CountKey(r, normalizeLine(a[i]))

\* C10: for a block whose added lines are a permutation of its removed lines,
\* parseDiffLines returns no net line at all, and additions and deletions are
\* the numbers of added and removed lines of the block.
C10_ReorderLeavesNoNetLines ==
    (parsed.done /\ IsPureReorder(block)) =>
        /\ parsed.cleanedLines = <<>>
        /\ parsed.additions = Len(TextsWithSign(HunkLinesOf(block), "+"))
        /\ parsed.deletions = Len(TextsWithSign(HunkLinesOf(block), "-"))

-----------------------------------------------------------------------------

-----------------------------------------------------------------------------
(* Claims about the Output Normalizer                                      *)

\* the run applied buildSpecificSubject to a diff with at least one file
SynthesizedForFiles ==
    nOut.done /\ nIn.kind = "gen" /\ nOut.usedFallback /\ nIn.diff.files # <<>>

\* C1: for a diff with at least one file, the subject buildSpecificSubject
\* returns passes matchRequiredTokens with the tokens and the count that
\* generateCommitMessage derived from the same diff.
C1_SynthesisPassesValidator ==
    SynthesizedForFiles =>
        matchRequiredTokens(nOut.ensured, nOut.tokens, nOut.tokenCount).ok

\* C2: for a diff with at least one file and any completion, the subject of the
\* message normalizeCommitMessage returns is not generic: it has at least 12
\* characters and holds none of the phrases isTooGeneric tests.
C2_SubjectNeverGeneric ==
    (nOut.done /\ nIn.kind = "gen" /\ nIn.diff.files # <<>>) =>
        ~isTooGeneric(nOut.message.subject)

\* the lengths that appending ranked-file fragments and the required-token
\* clause to the resolved subject can reach
ReachableLengths(resolved, fragments, tokenSnippet, lang) ==
    {Len(resolved), Len(Trim(CollapseWs(resolved \o tokenSnippet)))}
    \cup {Len(WithAppended(resolved, Join(Take(fragments, k), LengthJoiner(lang)),
                           tokenSnippet, lang)) : k \in 1..Len(fragments)}

\* A: the longest of these lengths that is within maxSubjectLength, 0 if none is
LongestWithin(lengths, maxLength) ==
    IF {n \in lengths : n <= maxLength} = {} THEN 0
    ELSE CHOOSE n \in {m \in lengths : m <= maxLength} :
             \A m \in {l \in lengths : l <= maxLength} : m <= n

Achievable ==
    LongestWithin(ReachableLengths(nOut.resolved, buildDetailFragments(nIn.diff),
                                   TokenSnippet(nOut.tokens), nIn.lang),
                  maxSubjectLength)

\* C3: with minSubjectLength 80 and maxSubjectLength 120 the subject that
\* ensureSpecificSubject returns has at most 120 characters and at least
\* min(80, A) characters, A being the longest length within 120 that appending
\* fragments and the token clause to the resolved subject reaches.
C3_SubjectLengthBounds ==
    (nOut.done /\ nIn.kind = "gen") =>
        /\ Len(nOut.ensured) <= maxSubjectLength
        /\ Len(nOut.ensured) >= Min(minSubjectLength, Achievable)

\* the 0-based indexes at or before the limit where a safe separator stands
\* and the trimmed prefix before it has at least 10 characters
SafeCuts(value, maxLength) ==
    {i \in 1..Min(maxLength, Len(value)) :
        /\ \E k \in 1..Len(TrimSeparators) : OccursAt(value, TrimSeparators[k], i)
        /\ Len(Trim(SliceTo(value, i))) >= 10}

LastCut(cuts) == CHOOSE i \in cuts : \A j \in cuts : j <= i

\* C4: when trimToMax truncates a value longer than the limit that has a safe
\* separator at or before the limit, the result is the prefix that ends at the
\* last such separator; the hard truncation happens only without one.
C4_TrimAtLastSeparator ==
    (nOut.done /\ nIn.kind = "trim" /\ Len(nIn.value) > nIn.maxLength
        /\ SafeCuts(nIn.value, nIn.maxLength) # {}) =>
        nOut.trimmed = Trim(SliceTo(nIn.value, LastCut(SafeCuts(nIn.value, nIn.maxLength))))

-----------------------------------------------------------------------------
(* Spec: the generation life cycle of the webview                          *)
(* (src/src/webview/main.ts: startInference, abortInference,               *)
(* generateCommitMessage).  One action is one task of the event loop: a    *)
(* user event, a timer, or the resumption of an attempt suspended at an    *)
(* await, run up to its next suspension.  An attempt is identified by its  *)
(* index in att; its AbortController and its timer carry the same index.   *)

MaxAttempts == 3
MaxChunks == 1

\* the mutable state of the webview as one value, at the start of a task
World ==
    [diffPresent |-> diffPresent, busy |-> busy, retryCount |-> retryCount,
     overlay |-> overlay, currentAbort |-> currentAbort, timeoutId |-> timeoutId,
     webllmModule |-> webllmModule, webllmEngine |-> webllmEngine, att |-> att,
     timers |-> timers, commitOutput |-> commitOutput, dialogs |-> {},
     gen |-> NoExit]

Becomes(w) ==
    /\ diffPresent' = w.diffPresent
    /\ busy' = w.busy
    /\ retryCount' = w.retryCount
    /\ overlay' = w.overlay
    /\ currentAbort' = w.currentAbort
    /\ timeoutId' = w.timeoutId
    /\ webllmModule' = w.webllmModule
    /\ webllmEngine' = w.webllmEngine
    /\ att' = w.att
    /\ timers' = w.timers
    /\ commitOutput' = w.commitOutput
    /\ dialogs' = w.dialogs
    /\ gen' = w.gen
    /\ UNCHANGED <<diffVars, normVars, engineCache, ensureCalls, host>>

showDialog(w, kind) == [w EXCEPT !.dialogs = @ \cup {kind}]

\* clearTimeout(timeoutId); timeoutId = null
ClearTimer(w) ==
    IF w.timeoutId = 0 THEN w
    ELSE [w EXCEPT !.timers[w.timeoutId] = IF @ = "armed" THEN "off" ELSE @,
                   !.timeoutId = 0]

\* currentAbort.abort(); currentAbort = null.  The signal of an attempt that
\* has finished is read by nobody: only a running attempt records it.
AbortCurrent(w) ==
    IF w.currentAbort = 0 THEN w
    ELSE IF w.att[w.currentAbort].pc = "done" THEN [w EXCEPT !.currentAbort = 0]
    ELSE [w EXCEPT !.att[w.currentAbort].aborted = TRUE, !.currentAbort = 0]

abortInference(w) == [ClearTimer(AbortCurrent(w)) EXCEPT !.overlay = FALSE]

\* a generation attempt at its first await (loadWebLLM): "load" when the
\* import() is pending, "loaded" when webllmModule is already there.  depth is
\* the number of automatic regenerations between the user's request and this
\* attempt.
NewAttempt(w, depth) ==
    [pc |-> IF w.webllmModule THEN "loaded" ELSE "load",
     aborted |-> FALSE, chunks |-> 0, depth |-> depth]

\* an attempt that has finished
DoneAttempt == [pc |-> "done", aborted |-> FALSE, chunks |-> 0, depth |-> 0]

EmptyOutput == [by |-> 0, kind |-> "empty"]

\* BeginAttempt as it would be if every start reset state.retryCount
BeginAttemptResetting(w, resetRetry, depth) ==
    [w EXCEPT !.busy = TRUE,
              !.retryCount = 0,
              !.commitOutput = EmptyOutput,
              !.overlay = TRUE,
              !.att = Append(@, NewAttempt(w, depth)),
              !.timers = Append(@, "off")]

BeginAttempt(w, resetRetry, depth) ==
    [w EXCEPT !.busy = TRUE,
              !.retryCount = IF resetRetry THEN 0 ELSE @,
              !.commitOutput = EmptyOutput,
              !.overlay = TRUE,
              !.att = Append(@, NewAttempt(w, depth)),
              !.timers = Append(@, "off")]

\* startInference up to its first await (loadWebLLM)
startInference(w, resetRetry, depth) ==
    IF ~w.diffPresent THEN showDialog(w, "noStagedGenerate")
    ELSE BeginAttempt(abortInference(w), resetRetry, depth)

\* startInference from the return of loadWebLLM to the await of
\* ensureModelCached: a new AbortController and a new 15 s timer replace
\* whatever currentAbort and timeoutId held
AfterLoad(w, a) ==
    [w EXCEPT !.webllmModule = TRUE,
              !.currentAbort = a,
              !.att[a].pc = "cache",
              !.timeoutId = a,
              !.timers[a] = "armed"]

\* loadWebLLM with webllmModule already set resolves in a microtask: the
\* attempt resumes before the next task of the event loop
Microtasks(w) ==
    IF w.att # <<>> /\ w.att[Len(w.att)].pc = "loaded" THEN AfterLoad(w, Len(w.att))
    ELSE w

\* the attempts suspended at a pending import() of the library.  The calls
\* share one module load, so their promises settle in the same task, and the
\* attempts resume one after the other in the order of their calls.
Waiting(w) == {a \in 1..Len(w.att) : w.att[a].pc = "load"}

Latest(attempts) == CHOOSE a \in attempts : \A b \in attempts : b <= a

\* every waiting attempt runs AfterLoad, the latest one last
AllAfterLoad(w, waiting) ==
    [w EXCEPT !.webllmModule = TRUE,
              !.currentAbort = Latest(waiting),
              !.timeoutId = Latest(waiting),
              !.att = [a \in 1..Len(w.att) |->
                          IF a \in waiting THEN [w.att[a] EXCEPT !.pc = "cache"]
                          ELSE w.att[a]],
              !.timers = [a \in 1..Len(w.att) |->
                             IF a \in waiting THEN "armed" ELSE w.timers[a]]]

\* the catch around loadWebLLM and pickModelId, in every waiting attempt
AllLoadFailed(w, waiting) ==
    showDialog([w EXCEPT !.overlay = FALSE, !.busy = FALSE,
                         !.att = [a \in 1..Len(w.att) |->
                                     IF a \in waiting THEN DoneAttempt ELSE w.att[a]]],
               "noModelsHint")

\* the finally block of startInference
Finally(w, a) ==
    [ClearTimer(w) EXCEPT !.overlay = FALSE, !.busy = FALSE, !.att[a] = DoneAttempt]

\* the catch block of startInference
Catch(w, a) ==
    IF w.att[a].aborted THEN Finally([w EXCEPT !.gen.outcome = "dropped"], a)
    ELSE Finally(showDialog([w EXCEPT !.gen.outcome = "failed"], "error"), a)

\* elements.commitOutput.value = ... by attempt a
WriteOutput(w, a, kind) == [w EXCEPT !.commitOutput = [by |-> a, kind |-> kind]]

\* startInference after generateCommitMessage returned a message; repetitive
\* says whether postFilter rejects it
Deliver(w, a, repetitive) ==
    IF w.att[a].aborted THEN Finally([w EXCEPT !.gen.outcome = "dropped"], a)
    ELSE IF repetitive /\ w.retryCount < 1
    THEN Finally(startInference(
                     showDialog([w EXCEPT !.retryCount = @ + 1,
                                          !.gen.outcome = "regenerated"],
                                "repetitive"),
                     FALSE, w.att[a].depth + 1), a)
    ELSE IF repetitive
    THEN Finally(WriteOutput(showDialog([w EXCEPT !.gen.outcome = "writtenAsIs"],
                                        "repetitive"), a, "final"), a)
    ELSE Finally(WriteOutput([w EXCEPT !.gen.outcome = "written"], a, "final"), a)

\* the model calls generateCommitMessage has made when it is suspended at pc
CallsMade(pc) ==
    IF pc = "retry" THEN <<"stream", "plain">>
    ELSE IF pc \in {"stream", "interrupt"} THEN <<"stream">>
    ELSE <<>>

\* generateCommitMessage of attempt a ends; exit is "returned" for a message
\* built from model content, "fallback" for one built from the fallback
\* subject, "threw" for 'Inference aborted' or a rethrown error, "typeError"
\* for the exception of reading a diff that is null
ExitRecord(w, a, exit, streamThrew, retryThrew, repetitive) ==
    [by |-> a, exit |-> exit, aborted |-> w.att[a].aborted,
     calls |-> CallsMade(w.att[a].pc),
     streamThrew |-> streamThrew \/ w.att[a].pc = "retry",
     retryThrew |-> retryThrew,
     repetitive |-> repetitive, depth |-> w.att[a].depth, outcome |-> "none"]

GenReturn(w, a, exit, retryThrew, repetitive) ==
    Deliver([w EXCEPT !.gen = ExitRecord(w, a, exit, FALSE, retryThrew, repetitive)],
            a, repetitive)

GenThrow(w, a, exit, streamThrew) ==
    Catch([w EXCEPT !.gen = ExitRecord(w, a, exit, streamThrew, FALSE, FALSE)], a)

\* generateCommitMessage once content is there: the check of signal.aborted
\* before the content is sanitized and normalized
AfterContent(w, a, repetitive) ==
    IF w.att[a].aborted THEN GenThrow(w, a, "threw", FALSE)
    ELSE GenReturn(w, a, "returned", FALSE, repetitive)

\* generateCommitMessage from its entry to the await of the streaming call
EnterGenerate(w, a) ==
    IF w.att[a].aborted THEN GenThrow(w, a, "threw", FALSE)
    ELSE IF ~w.diffPresent THEN GenThrow(w, a, "typeError", FALSE)
    ELSE [w EXCEPT !.att[a].pc = "stream"]

\* OnChunk as it would be without the check of signal.aborted in the loop
OnChunkUnchecked(w, a) ==
    WriteOutput([w EXCEPT !.att[a].chunks = @ + 1], a, "partial")

\* one iteration of the for await loop over the stream
OnChunk(w, a) ==
    IF w.att[a].aborted THEN [w EXCEPT !.att[a].pc = "interrupt"]
    ELSE WriteOutput([w EXCEPT !.att[a].chunks = @ + 1], a, "partial")

\* the catch around the streaming call
OnStreamError(w, a) ==
    IF w.att[a].aborted THEN GenThrow(w, a, "threw", TRUE)
    ELSE [w EXCEPT !.att[a].pc = "retry"]

\* OnRetryError as it would be if the second failure were thrown to the caller
OnRetryErrorRethrown(w, a, repetitive) == GenThrow(w, a, "threw", FALSE)

\* the catch around the non-streaming call
OnRetryError(w, a, repetitive) == GenReturn(w, a, "fallback", TRUE, repetitive)

\* a message that postFilter rejects may start one more attempt
RoomFor(a, repetitive) ==
    repetitive => (Len(att) < MaxAttempts \/ att[a].aborted \/ retryCount >= 1)

At(a, pc) == att[a].pc = pc

Init ==
    /\ LifeIdle
    /\ block = BlockHeader
    /\ parsed = NotParsed
    /\ PreIdle
    /\ nIn = NoNormIn
    /\ nOut = NoNormOut

\* the Generate or the Regenerate button
ClickGenerate ==
    /\ Len(att) < MaxAttempts
    /\ Becomes(Microtasks(startInference(World, TRUE, 0)))

\* the Abort button or the Escape key
ClickAbort == Becomes(abortInference(World))

\* the extension host reports that nothing is staged
DiffEmpty ==
    Becomes(showDialog(abortInference([World EXCEPT !.diffPresent = FALSE]),
                       "noStagedDialog"))

\* the extension host sends a diffUpdated message, with a diff or without one
DiffUpdated ==
    \E present \in BOOLEAN :
        /\ present # diffPresent
        /\ Becomes([World EXCEPT !.diffPresent = present])

\* the 15 s timer of attempt a fires and shows its dialog
TimerFires(a) ==
    /\ timers[a] = "armed"
    /\ Becomes(showDialog([World EXCEPT !.timers[a] = "dialog"], "timeoutSwitchTiny"))

\* the user confirms the dialog: startInference()
TimerConfirm(a) ==
    /\ timers[a] = "dialog"
    /\ Len(att) < MaxAttempts
    /\ Becomes(Microtasks(startInference([World EXCEPT !.timers[a] = "off"], TRUE, 0)))

\* the user dismisses the dialog
TimerDecline(a) ==
    /\ timers[a] = "dialog"
    /\ Becomes([World EXCEPT !.timers[a] = "off"])

\* the pending import() of the library resolves
ImportResolves ==
    /\ Waiting(World) # {}
    /\ Becomes(AllAfterLoad(World, Waiting(World)))

\* the pending import() of the library rejects
ImportRejects ==
    /\ Waiting(World) # {}
    /\ Becomes(AllLoadFailed(World, Waiting(World)))

\* ensureModelCached returns the engine
CacheDone(a) ==
    /\ At(a, "cache")
    /\ Becomes([World EXCEPT !.webllmEngine = TRUE, !.att[a].pc = "config"])

\* ensureModelCached throws
CacheThrows(a) ==
    /\ At(a, "cache")
    /\ Becomes(Catch(World, a))

\* getPromptConfig returns and generateCommitMessage runs to its first await
ConfigDone(a) ==
    /\ At(a, "config")
    /\ Becomes(EnterGenerate(World, a))

\* the stream delivers a chunk with text
ChunkArrives(a) ==
    /\ At(a, "stream")
    /\ att[a].aborted \/ att[a].chunks < MaxChunks
    /\ Becomes(OnChunk(World, a))

\* the stream ends
StreamEnds(a) ==
    /\ At(a, "stream")
    /\ \E repetitive \in BOOLEAN :
          /\ RoomFor(a, repetitive)
          /\ Becomes(Microtasks(AfterContent(World, a, repetitive)))

\* the streaming call or the stream throws
StreamThrows(a) ==
    /\ At(a, "stream")
    /\ Becomes(OnStreamError(World, a))

\* interruptGeneration returns and the loop throws 'Inference aborted'
InterruptDone(a) ==
    /\ At(a, "interrupt")
    /\ Becomes(GenThrow(World, a, "threw", FALSE))

\* the non-streaming call returns content
RetryReturns(a) ==
    /\ At(a, "retry")
    /\ \E repetitive \in BOOLEAN :
          /\ RoomFor(a, repetitive)
          /\ Becomes(Microtasks(AfterContent(World, a, repetitive)))

\* the non-streaming call throws
RetryThrows(a) ==
    /\ At(a, "retry")
    /\ \E repetitive \in BOOLEAN :
          /\ RoomFor(a, repetitive)
          /\ Becomes(Microtasks(OnRetryError(World, a, repetitive)))

Next ==
    \/ ClickGenerate
    \/ ClickAbort
    \/ DiffEmpty
    \/ DiffUpdated
    \/ \E a \in 1..Len(att) : TimerFires(a)
    \/ \E a \in 1..Len(att) : TimerConfirm(a)
    \/ \E a \in 1..Len(att) : TimerDecline(a)
    \/ ImportResolves
    \/ ImportRejects
    \/ \E a \in 1..Len(att) : CacheDone(a)
    \/ \E a \in 1..Len(att) : CacheThrows(a)
    \/ \E a \in 1..Len(att) : ConfigDone(a)
    \/ \E a \in 1..Len(att) : ChunkArrives(a)
    \/ \E a \in 1..Len(att) : StreamEnds(a)
    \/ \E a \in 1..Len(att) : StreamThrows(a)
    \/ \E a \in 1..Len(att) : InterruptDone(a)
    \/ \E a \in 1..Len(att) : RetryReturns(a)
    \/ \E a \in 1..Len(att) : RetryThrows(a)

Spec == Init /\ [][Next]_vars

-----------------------------------------------------------------------------
(* Claims about the generation life cycle                                  *)

\* the attempts that have started and not finished
InFlight == {a \in 1..Len(att) : att[a].pc # "done"}

\* C5: once the signal of an attempt is aborted, no step lets that attempt
\* consume a chunk into the commit output or write its final message there.
C5_AbortedAttemptNeverWrites ==
    [][\A a \in InFlight :
          att[a].aborted =>
              /\ (commitOutput' # commitOutput => commitOutput'.by # a)
              /\ (att'[a].pc # "done" => att'[a].chunks = att[a].chunks)]_vars

\* an aborted attempt that had written a chunk was handed another chunk
C5_Witness ==
    \E a \in InFlight :
        att[a].aborted /\ att[a].pc = "interrupt" /\ att[a].chunks >= 1

\* C6: at every moment at most one attempt is in flight with its signal not
\* aborted; an attempt still awaiting the library load counts as in flight.
C6_AtMostOneLiveAttempt ==
    Cardinality({a \in InFlight : ~att[a].aborted}) <= 1

\* C7: generateCommitMessage makes at most two model calls; a streaming call
\* that throws while the attempt is not cancelled is followed by exactly one
\* non-streaming call, and only then is there one; when that call throws too
\* the fallback message is returned; the call throws only when the signal is
\* aborted.
C7_StreamFailureRetriedOnce ==
    /\ Len(gen.calls) <= 2
    /\ (gen.streamThrew /\ ~gen.aborted) => gen.calls = <<"stream", "plain">>
    /\ Len(gen.calls) = 2 => (gen.streamThrew /\ gen.calls = <<"stream", "plain">>)
    /\ gen.retryThrew => gen.exit = "fallback"
    /\ gen.exit = "threw" => gen.aborted

\* both calls of an attempt that was not cancelled threw, and the fallback
\* message was written
C7_Witness ==
    /\ gen.retryThrew /\ ~gen.aborted /\ gen.exit = "fallback"
    /\ gen.outcome = "written"
    /\ commitOutput = [by |-> gen.by, kind |-> "final"]

\* C8: no attempt is more than one automatic regeneration away from the user's
\* request; a regeneration starts in the step in which the rejected attempt
\* finishes; a regenerated message that is rejected again is written as-is.
C8_AtMostOneRegeneration ==
    /\ \A a \in 1..Len(att) : att[a].depth <= 1
    /\ gen.outcome = "regenerated" => (gen.depth = 0 /\ att[gen.by].pc = "done")
    /\ (gen.depth >= 1 /\ gen.repetitive /\ ~gen.aborted) =>
           /\ gen.outcome = "writtenAsIs"
           /\ commitOutput = [by |-> gen.by, kind |-> "final"]

\* the message of an automatic regeneration was rejected again
C8_Witness ==
    gen.depth = 1 /\ gen.repetitive /\ ~gen.aborted /\ gen.outcome = "writtenAsIs"

\* C9: when the signal is aborted before generateCommitMessage ends, the call
\* throws; it returns neither a message nor the fallback message.
C9_AbortedCallThrows ==
    (gen.exit # "none" /\ gen.aborted) => gen.exit = "threw"


-----------------------------------------------------------------------------
(* Claims about token matching                                             *)

\* the four forms of a token, each taken from the token's text directly
TokenWithoutLeadingMarks(t) ==
    SubSeq(t, (CHOOSE k \in 1..(Len(t) + 1) :
                  /\ \A j \in 1..(k - 1) : t[j] \in {".", "#", "/"}
                  /\ (k <= Len(t) => t[k] \notin {".", "#", "/"})), Len(t))

PathBasename(t) ==
    SubSeq(t, (CHOOSE k \in 1..(Len(t) + 1) :
                  /\ (k > 1 => t[k - 1] = "/")
                  /\ \A j \in k..Len(t) : t[j] # "/"), Len(t))

BasenameWithoutExtension(b) ==
    IF \E i \in 1..(Len(b) - 1) : b[i] = "." /\ \A j \in (i + 1)..Len(b) : IsAlnum(b[j])
    THEN SubSeq(b, 1, (CHOOSE i \in 1..(Len(b) - 1) :
                          b[i] = "." /\ \A j \in (i + 1)..Len(b) : IsAlnum(b[j])) - 1)
    ELSE b

FourVariants(token) ==
    {Trim(token), TokenWithoutLeadingMarks(Trim(token)), PathBasename(Trim(token)),
     BasenameWithoutExtension(PathBasename(Trim(token)))}

VariantInSubject(subject, token) ==
    \E v \in FourVariants(token) :
        /\ Len(normalizeForMatch(v)) >= 3
        /\ Includes(normalizeForMatch(subject), normalizeForMatch(v))

\* C11: matchRequiredTokens counts a token as matched exactly when one of its
\* four variants (the token, the token without leading . # /, its basename, its
\* basename without extension) normalizes to at least 3 characters that occur
\* in the normalized subject; src/foo/bar.ts is matched by a subject with "bar"
\* and not by a subject with only "foo"
C11_MatchedIffVariantInSubject ==
    nOut.path = "match" =>
        /\ \A i \in 1..Len(nIn.tokens) :
              (nIn.tokens[i] \in Range(nOut.match.matchedTokens))
                  <=> VariantInSubject(nIn.value, nIn.tokens[i])
        /\ Range(nOut.match.matchedTokens) \subseteq Range(nIn.tokens)
        /\ (nIn.value = <<"u","p","d","a","t","e"," ","b","a","r">> /\ <<"s","r","c","/","f","o","o","/","b","a","r",".","t","s">> \in Range(nIn.tokens))
              => <<"s","r","c","/","f","o","o","/","b","a","r",".","t","s">> \in Range(nOut.match.matchedTokens)
        /\ nIn.value = <<"o","n","l","y"," ","f","o","o"," ","h","e","r","e">>
              => <<"s","r","c","/","f","o","o","/","b","a","r",".","t","s">> \notin Range(nOut.match.matchedTokens)

C11_Witness ==
    /\ nOut.path = "match"
    /\ nIn.value = <<"u","p","d","a","t","e"," ","b","a","r">>
    /\ nIn.tokens = << <<"a",".","b">>, <<"s","r","c","/","f","o","o","/","b","a","r",".","t","s">> >>
    /\ nOut.match.matchedTokens = << <<"s","r","c","/","f","o","o","/","b","a","r",".","t","s">> >>

-----------------------------------------------------------------------------
(* Diff Preprocessor: src/src/preprocess.ts                                *)

\* the text of a diff whose lines are `lines`: every line ends with a line feed
DiffText(lines) == Flatten([i \in 1..Len(lines) |-> lines[i] \o <<"LF">>])

DiffGit == <<"d","i","f","f"," ","-","-","g","i","t"," ">>

\* diff.split(/^diff --git /m).filter(Boolean).map(block => 'diff --git ' + block),
\* on lines: a block starts at every line that begins with "diff --git "; text
\* before the first of them is a block too, and gets the prefix
BlockStarts(lines) == {i \in 1..Len(lines) : StartsWith(lines[i], DiffGit)}

BlockEnd(lines, start) ==
    IF \E j \in BlockStarts(lines) : j > start
    THEN (CHOOSE j \in BlockStarts(lines) :
             j > start /\ \A k \in BlockStarts(lines) : k > start => j <= k) - 1
    ELSE Len(lines)

Preamble(lines) ==
    IF lines = <<>> \/ 1 \in BlockStarts(lines) THEN <<>>
    ELSE << <<DiffGit \o lines[1]>> \o SubSeq(lines, 2, BlockEnd(lines, 1)) >>

RECURSIVE BlocksFrom(_, _)
BlocksFrom(lines, from) ==
    IF from > Len(lines) THEN <<>>
    ELSE IF from \in BlockStarts(lines)
    THEN <<SubSeq(lines, from, BlockEnd(lines, from))>>
         \o BlocksFrom(lines, BlockEnd(lines, from) + 1)
    ELSE BlocksFrom(lines, BlockEnd(lines, from) + 1)

FileBlocks(lines) == Preamble(lines) \o BlocksFrom(lines, 1)

\* block.match(/^<prefix>(.+)$/m)?.[1]: what follows the prefix on the first
\* line that begins with it and goes on; <<>> when there is no such line
HasCapture(b, prefix) ==
    \E i \in 1..Len(b) : StartsWith(b[i], prefix) /\ Len(b[i]) > Len(prefix)

Capture(b, prefix) ==
    IF ~HasCapture(b, prefix) THEN <<>>
    ELSE SliceFrom(b[CHOOSE i \in 1..Len(b) :
                        /\ StartsWith(b[i], prefix) /\ Len(b[i]) > Len(prefix)
                        /\ \A j \in 1..(i - 1) :
                              ~(StartsWith(b[j], prefix) /\ Len(b[j]) > Len(prefix))],
                   Len(prefix))

\* summarizeFileBlock, lines 177-184: the path after "+++ b/", else the path
\* after "--- a/" (a match of "+++ /dev/null" has no capture)
FilePathOf(b) ==
    IF HasCapture(b, <<"+","+","+"," ","b","/">>) THEN Trim(Capture(b, <<"+","+","+"," ","b","/">>))
    ELSE IF HasCapture(b, <<"-","-","-"," ","a","/">>) THEN Trim(Capture(b, <<"-","-","-"," ","a","/">>))
    ELSE <<>>

AnyLineStarts(b, prefix) == \E i \in 1..Len(b) : StartsWith(b[i], prefix)

detectChangeType(b) ==
    IF AnyLineStarts(b, <<"n","e","w"," ","f","i","l","e"," ","m","o","d","e">>) THEN "added"
    ELSE IF AnyLineStarts(b, <<"d","e","l","e","t","e","d"," ","f","i","l","e"," ","m","o","d","e">>) THEN "deleted"
    ELSE IF AnyLineStarts(b, <<"r","e","n","a","m","e"," ","f","r","o","m">>) THEN "renamed"
    ELSE IF AnyLineStarts(b, <<"B","i","n","a","r","y"," ","f","i","l","e","s">>) THEN "binary"
    ELSE "modified"

detectLang(filePath) ==
    IF EndsWith(ToLower(filePath), <<".","t","s">>) \/ EndsWith(ToLower(filePath), <<".","t","s","x">>) THEN "ts"
    ELSE IF EndsWith(ToLower(filePath), <<".","j","s">>) \/ EndsWith(ToLower(filePath), <<".","j","s","x">>) THEN "js"
    ELSE IF EndsWith(ToLower(filePath), <<".","p","y">>) THEN "py"
    ELSE IF EndsWith(ToLower(filePath), <<".","r","s">>) THEN "rs"
    ELSE IF \E e \in {<<".","c","p","p">>, <<".","c","c">>, <<".","c","x","x">>, <<".","h","p","p">>, <<".","h","x","x">>} :
                EndsWith(ToLower(filePath), e) THEN "cpp"
    ELSE IF EndsWith(ToLower(filePath), <<".","c">>) \/ EndsWith(ToLower(filePath), <<".","h">>) THEN "c"
    ELSE IF EndsWith(ToLower(filePath), <<"c","m","a","k","e","l","i","s","t","s",".","t","x","t">>)
            \/ EndsWith(ToLower(filePath), <<".","c","m","a","k","e">>) THEN "cmake"
    ELSE "none"

\* \w, and the position where a run of \s or of \w that starts at i ends
IsWordChar(c) == IsAlnum(c) \/ c = "_"

WsEnd(line, i) ==
    CHOOSE j \in i..(Len(line) + 1) :
        /\ \A k \in i..(j - 1) : IsSpace(line[k])
        /\ (j <= Len(line) => ~IsSpace(line[j]))

WordEnd(line, i) ==
    CHOOSE j \in i..(Len(line) + 1) :
        /\ \A k \in i..(j - 1) : IsWordChar(line[k])
        /\ (j <= Len(line) => ~IsWordChar(line[j]))

\* a pattern \b w1 \s+ w2 ... [\s+ \w+] (\s* c)* of LANGUAGE_WEIGHT: words are
\* the alternatives of each keyword, ident tells whether \s+\w+ follows, tail
\* are the characters that end it, each after \s*
Kw(words, ident, tail, weight) ==
    [kind |-> "kw", words |-> words, ident |-> ident, tail |-> tail, chars |-> {},
     weight |-> weight]

\* /^\s*(?:[chars]+\s+)+\w+\s*\(/gm, chars being \w and the characters given
Decl(chars, weight) ==
    [kind |-> "decl", words |-> <<>>, ident |-> TRUE, tail |-> <<"(">>, chars |-> chars,
     weight |-> weight]

LANGUAGE_WEIGHT ==
    [ts |-> << Kw(<<{<<"i","n","t","e","r","f","a","c","e">>}>>, TRUE, <<>>, 3),
               Kw(<<{<<"t","y","p","e">>}>>, TRUE, <<"=">>, 2),
               Kw(<<{<<"c","l","a","s","s">>}>>, TRUE, <<>>, 2),
               Kw(<<{<<"f","u","n","c","t","i","o","n">>}>>, TRUE, <<"(">>, 1),
               Kw(<<{<<"c","o","n","s","t">>}>>, TRUE, <<"=", "(">>, 1) >>,
     js |-> << Kw(<<{<<"c","l","a","s","s">>}>>, TRUE, <<>>, 2),
               Kw(<<{<<"f","u","n","c","t","i","o","n">>}>>, TRUE, <<"(">>, 1),
               Kw(<<{<<"c","o","n","s","t">>}>>, TRUE, <<"=", "(">>, 1),
               Kw(<<{<<"e","x","p","o","r","t">>}, {<<"f","u","n","c","t","i","o","n">>, <<"c","o","n","s","t">>, <<"c","l","a","s","s">>}>>, TRUE, <<>>, 1) >>,
     py |-> << Kw(<<{<<"c","l","a","s","s">>}>>, TRUE, <<>>, 3),
               Kw(<<{<<"d","e","f">>}>>, TRUE, <<"(">>, 2) >>,
     rs |-> << Kw(<<{<<"t","r","a","i","t">>}>>, TRUE, <<>>, 3),
               Kw(<<{<<"s","t","r","u","c","t">>}>>, TRUE, <<>>, 2),
               Kw(<<{<<"e","n","u","m">>}>>, TRUE, <<>>, 2),
               Kw(<<{<<"i","m","p","l">>}>>, TRUE, <<>>, 1),
               Kw(<<{<<"f","n">>}>>, TRUE, <<"(">>, 1) >>,
     cpp |-> << Kw(<<{<<"c","l","a","s","s">>}>>, TRUE, <<>>, 2),
                Kw(<<{<<"s","t","r","u","c","t">>}>>, TRUE, <<>>, 2),
                Kw(<<{<<"e","n","u","m">>}>>, TRUE, <<>>, 2),
                Kw(<<{<<"n","a","m","e","s","p","a","c","e">>}>>, TRUE, <<>>, 1),
                Decl({":", "<", ">", "~", "*", "&"}, 1) >>,
     c |-> << Kw(<<{<<"s","t","r","u","c","t">>}>>, TRUE, <<>>, 2),
              Kw(<<{<<"e","n","u","m">>}>>, TRUE, <<>>, 2),
              Decl({"*"}, 1) >>,
     cmake |-> << Kw(<<{<<"a","d","d","_","l","i","b","r","a","r","y">>}>>, FALSE, <<"(">>, 2),
                  Kw(<<{<<"a","d","d","_","e","x","e","c","u","t","a","b","l","e">>}>>, FALSE, <<"(">>, 2),
                  Kw(<<{<<"t","a","r","g","e","t","_","l","i","n","k","_","l","i","b","r","a","r","i","e","s">>}>>, FALSE, <<"(">>, 1),
                  Kw(<<{<<"s","e","t">>}>>, FALSE, <<"(">>, 1) >>]

\* the position after keyword words[1] at i and each further keyword after \s+
\* (0: no match)
KeywordAt(line, i, kws) == \E k \in kws : OccursAt(line, k, i - 1)
KeywordEnd(line, i, kws) == i + Len(CHOOSE k \in kws : OccursAt(line, k, i - 1))

RECURSIVE WordsEnd(_, _, _)
WordsEnd(line, i, words) ==
    IF ~KeywordAt(line, i, Head(words)) THEN 0
    ELSE IF Len(words) = 1 THEN KeywordEnd(line, i, Head(words))
    ELSE IF WsEnd(line, KeywordEnd(line, i, Head(words))) = KeywordEnd(line, i, Head(words))
    THEN 0
    ELSE WordsEnd(line, WsEnd(line, KeywordEnd(line, i, Head(words))), Tail(words))

\* \s+\w+ from position e on
IdentEnd(line, e, ident) ==
    IF e = 0 \/ ~ident THEN e
    ELSE IF WsEnd(line, e) = e \/ WordEnd(line, WsEnd(line, e)) = WsEnd(line, e) THEN 0
    ELSE WordEnd(line, WsEnd(line, e))

\* (\s* c) for every c of tail, from position e on
RECURSIVE TailEnd(_, _, _)
TailEnd(line, e, tail) ==
    IF e = 0 \/ tail = <<>> THEN e
    ELSE IF WsEnd(line, e) <= Len(line) /\ line[WsEnd(line, e)] = Head(tail)
    THEN TailEnd(line, WsEnd(line, e) + 1, Tail(tail))
    ELSE 0

WordBoundaryAt(line, i) == i = 1 \/ ~IsWordChar(line[i - 1])

\* the position after the match of a keyword pattern that starts at i (0: none)
MatchEnd(line, i, pat) ==
    IF WordBoundaryAt(line, i)
    THEN TailEnd(line, IdentEnd(line, WordsEnd(line, i, pat.words), pat.ident), pat.tail)
    ELSE 0

MatchStarts(line, from, pat) == {i \in from..Len(line) : MatchEnd(line, i, pat) > 0}

\* line.match(regex).length for a /g keyword pattern: matches are taken from
\* left to right, each search starting where the last match ended
RECURSIVE CountKwFrom(_, _, _)
CountKwFrom(line, from, pat) ==
    IF MatchStarts(line, from, pat) = {} THEN 0
    ELSE 1 + CountKwFrom(line,
                         MatchEnd(line, CHOOSE i \in MatchStarts(line, from, pat) :
                                            \A j \in MatchStarts(line, from, pat) : i <= j, pat),
                         pat)

\* t = the text before a '(' without outer white space: words of [chars]
\* separated by white space, then white space and one word of \w
DeclPrefix(t, chars) ==
    \E k \in 2..(Len(t) - 1) :
        /\ IsSpace(t[k])
        /\ \A j \in (k + 1)..Len(t) : IsWordChar(t[j])
        /\ \A j \in 1..(k - 1) : IsSpace(t[j]) \/ IsWordChar(t[j]) \/ t[j] \in chars

\* the declaration pattern is anchored at the start of the line: 0 or 1 match
CountDecl(line, chars) ==
    IF \E p \in 1..Len(line) :
          line[p] = "(" /\ DeclPrefix(Trim(SubSeq(line, 1, p - 1)), chars)
    THEN 1 ELSE 0

CountMatches(line, pat) ==
    IF pat.kind = "decl" THEN CountDecl(line, pat.chars) ELSE CountKwFrom(line, 1, pat)

RECURSIVE LineWeight(_, _)
LineWeight(line, patterns) ==
    IF patterns = <<>> THEN 0
    ELSE CountMatches(line, Head(patterns)) * Head(patterns).weight
         + LineWeight(line, Tail(patterns))

RECURSIVE LinesWeight(_, _)
LinesWeight(cleanedLines, patterns) ==
    IF cleanedLines = <<>> THEN 0
    ELSE LineWeight(Head(cleanedLines), patterns) + LinesWeight(Tail(cleanedLines), patterns)

\* the same without Math.max(weight, 1)
computeWeightUnclamped(filePath, cleanedLines) ==
    IF detectLang(filePath) = "none" THEN 1
    ELSE LinesWeight(cleanedLines, LANGUAGE_WEIGHT[detectLang(filePath)])

computeWeight(filePath, cleanedLines) ==
    IF detectLang(filePath) = "none" THEN 1
    ELSE Max(LinesWeight(cleanedLines, LANGUAGE_WEIGHT[detectLang(filePath)]), 1)

LOCKFILES == {<<"p","n","p","m","-","l","o","c","k",".","y","a","m","l">>, <<"p","a","c","k","a","g","e","-","l","o","c","k",".","j","s","o","n">>}

\* path.basename(p): the last segment, trailing slashes aside
RECURSIVE basename(_)
basename(p) ==
    IF p # <<>> /\ p[Len(p)] = "/" THEN basename(SubSeq(p, 1, Len(p) - 1))
    ELSE LastSegment(p)

\* String(n) for the small numbers of the model
RECURSIVE NumberText(_)
NumberText(n) ==
    IF n < 10 THEN <<(<<"0","1","2","3","4","5","6","7","8","9">>)[n + 1]>>
    ELSE NumberText(n \div 10) \o NumberText(n % 10)

\* /version:/i.test(t) || /"version"\s*:/i.test(t)
VersionLine(t) ==
    \/ IncludesCI(t, <<"v","e","r","s","i","o","n",":">>)
    \/ \E i \in 0..(Len(t) - 9) :
          /\ OccursAt(ToLower(t), <<"DQ","v","e","r","s","i","o","n","DQ">>, i)
          /\ WsEnd(t, i + 10) <= Len(t)
          /\ t[WsEnd(t, i + 10)] = ":"

\* t.match(/\/(.+?)@/)?.[1]: from the first '/' that has an '@' two or more
\* characters later, up to the first such '@'
AtSign == "@"

PkgStarts(t) == {i \in 1..Len(t) : t[i] = "/" /\ \E j \in (i + 2)..Len(t) : t[j] = AtSign}

PkgFrom(t, i) ==
    SubSeq(t, i + 1, (CHOOSE j \in (i + 2)..Len(t) :
                         t[j] = AtSign /\ \A k \in (i + 2)..(j - 1) : t[k] # AtSign) - 1)

PkgMatch(t) ==
    IF PkgStarts(t) = {} THEN <<>>
    ELSE PkgFrom(t, CHOOSE i \in PkgStarts(t) : \A k \in PkgStarts(t) : i <= k)

IsSigned(line, sign) == StartsWith(line, <<sign>>)

VersionCount(b, sign) ==
    Cardinality({i \in 1..Len(b) : IsSigned(b[i], sign) /\ VersionLine(SliceFrom(b[i], 1))})

\* the Set `packages`, in insertion order
PackagesOf(b) ==
    Dedup(Flatten([i \in 1..Len(b) |->
        IF (IsSigned(b[i], "+") \/ IsSigned(b[i], "-")) /\ PkgMatch(SliceFrom(b[i], 1)) # <<>>
        THEN <<PkgMatch(SliceFrom(b[i], 1))>> ELSE <<>>]))

PkgSnippet(packages) ==
    IF packages = <<>> THEN <<>>
    ELSE <<" ","(">> \o Join(Take(packages, 3), <<","," ">>)
         \o (IF Len(packages) > 3 THEN <<","," ",".",".",".">> ELSE <<>>) \o <<")">>

LockfileEntry(name, totalUpdates, packages) ==
    IF totalUpdates = 0 THEN name \o <<":"," ","l","o","c","k","f","i","l","e"," ","u","p","d","a","t","e","d">>
    ELSE name \o <<":"," ">> \o NumberText(totalUpdates) \o <<" ","v","e","r","s","i","o","n"," ","e","n","t","r","i","e","s"," ","u","p","d","a","t","e","d">>
         \o PkgSnippet(packages)

summarizeLockfile(b, filePath) ==
    << LockfileEntry(basename(filePath),
                     Max(Max(VersionCount(b, "+"), VersionCount(b, "-")), Len(PackagesOf(b))),
                     PackagesOf(b)) >>

\* a pattern of CONTEXT_PATTERNS with its capture group (\w+): "kw" is
\* \b w1 \s+ w2 ... \s+ (\w+) (\s* c)*, "line" the same after ^\s*, "decl" is
\* ^\s*(?:[chars]+\s+)+(\w+)\s*\( and "call" is ^\s*word\(([^)\s]+) with the
\* i flag
Ctx(kind, words, tail, chars) ==
    [kind |-> kind, words |-> words, ident |-> TRUE, tail |-> tail, chars |-> chars,
     weight |-> 0]

CONTEXT_PATTERNS ==
    [ts |-> << Ctx("kw", <<{<<"e","x","p","o","r","t">>}, {<<"c","o","n","s","t">>}>>, <<>>, {}),
               Ctx("kw", <<{<<"c","o","n","s","t">>}>>, <<"=", "(">>, {}),
               Ctx("kw", <<{<<"f","u","n","c","t","i","o","n">>}>>, <<>>, {}),
               Ctx("kw", <<{<<"c","l","a","s","s">>}>>, <<>>, {}),
               Ctx("kw", <<{<<"i","n","t","e","r","f","a","c","e">>}>>, <<>>, {}),
               Ctx("kw", <<{<<"t","y","p","e">>}>>, <<>>, {}) >>,
     js |-> << Ctx("kw", <<{<<"e","x","p","o","r","t">>}, {<<"c","o","n","s","t">>}>>, <<>>, {}),
               Ctx("kw", <<{<<"c","o","n","s","t">>}>>, <<"=", "(">>, {}),
               Ctx("kw", <<{<<"f","u","n","c","t","i","o","n">>}>>, <<>>, {}),
               Ctx("kw", <<{<<"c","l","a","s","s">>}>>, <<>>, {}) >>,
     py |-> << Ctx("line", <<{<<"d","e","f">>}>>, <<>>, {}),
               Ctx("line", <<{<<"c","l","a","s","s">>}>>, <<>>, {}) >>,
     rs |-> << Ctx("line", <<{<<"f","n">>}>>, <<>>, {}),
               Ctx("line", <<{<<"s","t","r","u","c","t">>}>>, <<>>, {}),
               Ctx("line", <<{<<"e","n","u","m">>}>>, <<>>, {}),
               Ctx("line", <<{<<"t","r","a","i","t">>}>>, <<>>, {}),
               Ctx("line", <<{<<"i","m","p","l">>}>>, <<>>, {}) >>,
     cpp |-> << Ctx("line", <<{<<"c","l","a","s","s">>}>>, <<>>, {}),
                Ctx("line", <<{<<"s","t","r","u","c","t">>}>>, <<>>, {}),
                Ctx("line", <<{<<"e","n","u","m">>}>>, <<>>, {}),
                Ctx("line", <<{<<"n","a","m","e","s","p","a","c","e">>}>>, <<>>, {}),
                Ctx("decl", <<>>, <<"(">>, {":", "<", ">", "~", "*", "&"}) >>,
     c |-> << Ctx("line", <<{<<"s","t","r","u","c","t">>}>>, <<>>, {}),
              Ctx("line", <<{<<"e","n","u","m">>}>>, <<>>, {}),
              Ctx("decl", <<>>, <<"(">>, {"*"}) >>,
     cmake |-> << Ctx("call", <<{<<"p","r","o","j","e","c","t">>}>>, <<>>, {}),
                  Ctx("call", <<{<<"a","d","d","_","l","i","b","r","a","r","y">>}>>, <<>>, {}),
                  Ctx("call", <<{<<"a","d","d","_","e","x","e","c","u","t","a","b","l","e">>}>>, <<>>, {}),
                  Ctx("call", <<{<<"s","e","t">>}>>, <<>>, {}) >>]

\* the (\w+) of a keyword pattern that matches from position i on
KwCapture(line, i, pat) ==
    LET s == WsEnd(line, WordsEnd(line, i, pat.words))
    IN  SubSeq(line, s, WordEnd(line, s) - 1)

\* the (\w+) of the declaration pattern: the word before the first "("
DeclCapture(line, chars) ==
    LET opens == {p \in 1..Len(line) : line[p] = "("}
        p == CHOOSE q \in opens : \A r \in opens : q <= r
        t == Trim(SubSeq(line, 1, p - 1))
        k == CHOOSE j \in 1..Len(t) : IsSpace(t[j]) /\ \A m \in (j + 1)..Len(t) : ~IsSpace(t[m])
    IN  IF opens = {} THEN <<>>
        ELSE IF ~DeclPrefix(t, chars) THEN <<>>
        ELSE SubSeq(t, k + 1, Len(t))

\* the ([^)\s]+) of a cmake pattern
CallCapture(line, word) ==
    LET i == WsEnd(line, 1)
        s == i + Len(word) + 1
        e == CHOOSE j \in s..(Len(line) + 1) :
                 /\ \A m \in s..(j - 1) : ~IsSpace(line[m]) /\ line[m] # ")"
                 /\ (j <= Len(line) => IsSpace(line[j]) \/ line[j] = ")")
    IN  IF OccursAt(ToLower(line), word \o <<"(">>, i - 1) THEN SubSeq(line, s, e - 1)
        ELSE <<>>

\* pattern.exec(line)?.[1], <<>> when there is none
LabelCapture(line, pat) ==
    IF pat.kind = "kw"
    THEN IF MatchStarts(line, 1, pat) = {} THEN <<>>
         ELSE KwCapture(line, CHOOSE i \in MatchStarts(line, 1, pat) :
                                  \A j \in MatchStarts(line, 1, pat) : i <= j, pat)
    ELSE IF pat.kind = "line"
    THEN IF WsEnd(line, 1) <= Len(line) /\ MatchEnd(line, WsEnd(line, 1), pat) > 0
         THEN KwCapture(line, WsEnd(line, 1), pat)
         ELSE <<>>
    ELSE IF pat.kind = "decl" THEN DeclCapture(line, pat.chars)
    ELSE CallCapture(line, CHOOSE w \in pat.words[1] : TRUE)

\* the inner loop of findNearestLabel: the capture of the first pattern that
\* has one
RECURSIVE LineLabel(_, _)
LineLabel(line, patterns) ==
    IF patterns = <<>> THEN <<>>
    ELSE IF LabelCapture(line, Head(patterns)) # <<>> THEN LabelCapture(line, Head(patterns))
    ELSE LineLabel(line, Tail(patterns))

\* findNearestLabel: index counts from 0; a line past the end of the file is
\* undefined and matches no pattern; <<>> is null
findNearestLabel(lines, index, patterns) ==
    LET labelled == {i \in 0..Min(index, Len(lines) - 1) :
                        LineLabel(lines[i + 1], patterns) # <<>>}
    IN  IF labelled = {} THEN <<>>
        ELSE LineLabel(lines[(CHOOSE i \in labelled : \A j \in labelled : j <= i) + 1],
                       patterns)

\* labels.add(label) for the labels that are not null
RECURSIVE AddLabels(_, _)
AddLabels(labels, found) ==
    IF found = <<>> THEN labels
    ELSE IF Head(found) = <<>> \/ Head(found) \in Range(labels)
    THEN AddLabels(labels, Tail(found))
    ELSE AddLabels(Append(labels, Head(found)), Tail(found))

\* the files of the working tree and their lines: content.split(/\r?\n/)
TreeFiles ==
    << [path |-> <<"s","r","c","/","a","u","t","h","/","l","o","g","i","n",".","t","s">>,
        lines |-> << <<"i","m","p","o","r","t"," ","{"," ","S","e","s","s","i","o","n"," ","}"," ","f","r","o","m"," ","'",".","/","s","e","s","s","i","o","n","'",";">>,
                     <<>>,
                     <<"e","x","p","o","r","t"," ","c","l","a","s","s"," ","L","o","g","i","n"," ","{">>,
                     <<" "," ","p","r","i","v","a","t","e"," ","c","o","u","n","t"," ","="," ","0",";">>,
                     <<>>,
                     <<" "," ","t","y","p","e"," ","G","u","a","r","d"," ","="," ","b","o","o","l","e","a","n",";">>,
                     <<"}">>,
                     <<>>,
                     <<"e","x","p","o","r","t"," ","c","o","n","s","t"," ","c","h","e","c","k"," ","="," ","(","t",")"," ","=",">"," ","t",";">>,
                     <<"e","x","p","o","r","t"," ","f","u","n","c","t","i","o","n"," ","l","o","g","i","n","(","u","s","e","r",")"," ","{">>,
                     <<"}">> >>],
       [path |-> <<"s","r","c","/","a","u","t","h","/","s","e","s","s","i","o","n",".","t","s">>,
        lines |-> << <<"i","n","t","e","r","f","a","c","e"," ","S","e","s","s","i","o","n"," ","{"," ","i","d",":"," ","s","t","r","i","n","g"," ","}">>,
                     <<"c","o","n","s","t"," ","c","l","a","s","s","i","f","y"," ","="," ","(","t","o","k","e","n",")"," ","=",">"," ","{">>,
                     <<" "," ","r","e","t","u","r","n"," ","t","o","k","e","n",";">>,
                     <<" "," ","r","e","t","u","r","n"," ","c","l","a","s","s","i","f","y","(","t","o","k","e","n",")",";">> >>],
       [path |-> <<"p","a","r","s","e","r",".","r","s">>,
        lines |-> << <<"p","u","b"," ","f","n"," ","p","a","r","s","e","_","e","x","p","r"," ","(","i","n","p","u","t",":"," ","&","s","t","r",")"," ","{">>,
                     <<" "," ","f","n"," ","i","n","n","e","r","(","x",":"," ","u","8",")"," ","{","}">> >>],
       [path |-> <<"s","r","c","/","M","a","i","n",".","C">>,
        lines |-> << <<"i","n","t"," ","m","a","i","n"," ","(","v","o","i","d",")"," ","{">> >>],
       [path |-> <<"C","M","a","k","e","L","i","s","t","s",".","t","x","t">>,
        lines |-> << <<" "," ","P","R","O","J","E","C","T","(","s","m","a","r","t","-","c","o","m","m","i","t"," ","C",")">> >>],
       [path |-> <<"a","p","p",".","p","y">>,
        lines |-> << <<"c","l","a","s","s"," ","F","o","o","(","B","a","s","e",")",":">> >>],
       [path |-> <<"u","t","i","l",".","j","s">>,
        lines |-> << <<"c","o","n","s","t"," ","g"," ","="," ","1",";"," ","f","u","n","c","t","i","o","n"," ","h"," ","(",")"," ","{","}">> >>],
       [path |-> <<"l","i","b","/","c","o","r","e",".","h","p","p">>,
        lines |-> << <<"s","t","d",":",":","v","e","c","t","o","r","<","i","n","t",">"," ","&","E","n","g","i","n","e",":",":","r","u","n"," ","(","i","n","t"," ","n",")">> >>],
       [path |-> <<"R","E","A","D","M","E",".","m","d">>,
        lines |-> << <<"c","l","a","s","s"," ","F","o","o"," ","i","s"," ","d","o","c","u","m","e","n","t","e","d"," ","h","e","r","e">> >>] >>

TreePaths == {TreeFiles[i].path : i \in 1..Len(TreeFiles)}

\* fs.readFile(path.join(repoRoot, filePath), 'utf8') succeeds: repoRoot is
\* the set of the files that can be read under it
Readable(repoRoot, filePath) == filePath \in repoRoot /\ filePath \in TreePaths

FileLines(filePath) == (CHOOSE f \in Range(TreeFiles) : f.path = filePath).lines

\* findContextLabels as it would be if the error of the read were returned in
\* place of the labels
findContextLabelsRethrown(repoRoot, filePath, hunkStarts) ==
    IF detectLang(filePath) = "none" THEN <<>>
    ELSE IF ~Readable(repoRoot, filePath) THEN << <<"E","N","O","E","N","T">> >>
    ELSE Take(AddLabels(<<>>, [h \in 1..Len(hunkStarts) |->
                                  findNearestLabel(FileLines(filePath), hunkStarts[h] - 1,
                                                   CONTEXT_PATTERNS[detectLang(filePath)])]), 4)

\* findContextLabels: no labels for a file of no known language and for a file
\* that cannot be read
findContextLabels(repoRoot, filePath, hunkStarts) ==
    IF detectLang(filePath) = "none" THEN <<>>
    ELSE IF ~Readable(repoRoot, filePath) THEN <<>>
    ELSE Take(AddLabels(<<>>, [h \in 1..Len(hunkStarts) |->
                                  findNearestLabel(FileLines(filePath), hunkStarts[h] - 1,
                                                   CONTEXT_PATTERNS[detectLang(filePath)])]), 4)

\* path.extname of a path: from the last "." of the base name on, none when
\* that "." is its first character
extname(p) ==
    LET b == basename(p)
        dots == {i \in 2..Len(b) : b[i] = "."}
    IN  IF dots = {} THEN <<>>
        ELSE SubSeq(b, CHOOSE i \in dots : \A j \in dots : j <= i, Len(b))

\* path.basename(p, ext)
basenameWithout(p, ext) ==
    IF ext # <<>> /\ EndsWith(basename(p), ext) /\ basename(p) # ext
    THEN SubSeq(basename(p), 1, Len(basename(p)) - Len(ext))
    ELSE basename(p)

\* filePath.split('/')[0]
topDirOf(filePath) ==
    LET slashes == {i \in 1..Len(filePath) : filePath[i] = "/"}
    IN  IF slashes = {} THEN filePath
        ELSE SubSeq(filePath, 1, (CHOOSE i \in slashes : \A j \in slashes : i <= j) - 1)

\* the pushes of a list of (condition, value) pairs, in order
RECURSIVE PushWhere(_)
PushWhere(pairs) ==
    IF pairs = <<>> THEN <<>>
    ELSE IF Head(pairs)[1] THEN <<Head(pairs)[2]>> \o PushWhere(Tail(pairs))
    ELSE PushWhere(Tail(pairs))

inferPathHighlights(filePath) ==
    LET lower == ToLower(filePath)
        base == basename(lower)
        ext == extname(lower)
        topDir == topDirOf(filePath)
    IN  PushWhere(<<
          <<base = <<".","g","i","t","i","g","n","o","r","e">>, <<"g","i","t","i","g","n","o","r","e"," ","r","u","l","e","s"," ","u","p","d","a","t","e","d">>>>,
          <<base = <<"c","m","a","k","e","l","i","s","t","s",".","t","x","t">> \/ ext = <<".","c","m","a","k","e">>, <<"c","m","a","k","e"," ","c","o","n","f","i","g"," ","u","p","d","a","t","e","d">>>>,
          <<Includes(lower, <<"/","d","i","s","t","/">>) \/ StartsWith(lower, <<"d","i","s","t","/">>), <<"d","i","s","t","r","i","b","u","t","i","o","n"," ","b","u","n","d","l","e"," ","u","p","d","a","t","e","d">>>>,
          <<Includes(lower, <<"/","b","u","i","l","d","/">>) \/ StartsWith(lower, <<"b","u","i","l","d","/">>), <<"b","u","i","l","d"," ","o","u","t","p","u","t"," ","u","p","d","a","t","e","d">>>>,
          <<base = <<"p","a","c","k","a","g","e",".","j","s","o","n">>, <<"p","a","c","k","a","g","e"," ","m","e","t","a","d","a","t","a"," ","u","p","d","a","t","e","d">>>>,
          <<\E w \in {<<"w","e","b","p","a","c","k">>, <<"r","o","l","l","u","p">>, <<"v","i","t","e">>, <<"e","s","b","u","i","l","d">>} : Includes(lower, w), <<"b","u","i","l","d"," ","c","o","n","f","i","g"," ","u","p","d","a","t","e","d">>>>,
          <<Includes(lower, <<"e","s","l","i","n","t">>) \/ Includes(lower, <<"p","r","e","t","t","i","e","r">>), <<"l","i","n","t","i","n","g"," ","c","o","n","f","i","g"," ","u","p","d","a","t","e","d">>>>,
          <<Includes(lower, <<"t","e","s","t">>) \/ Includes(lower, <<"s","p","e","c">>), <<"t","e","s","t","s"," ","u","p","d","a","t","e","d">>>>,
          <<ext = <<".","m","d">> \/ Includes(lower, <<"r","e","a","d","m","e">>), <<"d","o","c","s"," ","u","p","d","a","t","e","d">>>>,
          <<ext \in {<<".","j","s","o","n">>, <<".","y","m","l">>, <<".","y","a","m","l">>, <<".","t","o","m","l">>}, <<"c","o","n","f","i","g"," ","u","p","d","a","t","e","d">>>>,
          <<ext \in {<<".","c","p","p">>, <<".","c","c">>, <<".","c","x","x">>, <<".","h","p","p">>, <<".","h","x","x">>, <<".","c">>, <<".","h">>}, <<"c","/","c","+","+"," ","s","o","u","r","c","e","s"," ","u","p","d","a","t","e","d">>>>,
          <<ext \in {<<".","j","s">>, <<".","j","s","x">>}, <<"j","a","v","a","s","c","r","i","p","t"," ","s","o","u","r","c","e","s"," ","u","p","d","a","t","e","d">>>>,
          <<ext \in {<<".","t","s">>, <<".","t","s","x">>}, <<"t","y","p","e","s","c","r","i","p","t"," ","s","o","u","r","c","e","s"," ","u","p","d","a","t","e","d">>>>,
          <<topDir # <<>> /\ topDir # basenameWithout(filePath, ext) /\ topDir # base,
            topDir \o <<" ","m","o","d","u","l","e"," ","u","p","d","a","t","e","d">>>> >>)

\* regex.test(text) for \b w1 \s+ w2 ... [\s+\w+]
TestKw(text, pat) == MatchStarts(text, 1, pat) # {}

\* /\bexport\s+(?:function|const|class)\s+/
TestExport(text) ==
    \E i \in 1..Len(text) :
        /\ WordBoundaryAt(text, i)
        /\ LET e == WordsEnd(text, i, <<{<<"e","x","p","o","r","t">>}, {<<"f","u","n","c","t","i","o","n">>, <<"c","o","n","s","t">>, <<"c","l","a","s","s">>}>>)
           IN  e > 0 /\ e <= Len(text) /\ IsSpace(text[e])

\* /\bword/ and /\bword\b/
TestWordStart(text, word) ==
    \E i \in 1..Len(text) : WordBoundaryAt(text, i) /\ OccursAt(text, word, i - 1)

TestWord(text, word) ==
    \E i \in 1..Len(text) :
        /\ WordBoundaryAt(text, i)
        /\ OccursAt(text, word, i - 1)
        /\ (i + Len(word) <= Len(text) => ~IsWordChar(text[i + Len(word)]))

\* the regular expressions see a line feed as white space: the lines are
\* joined with a space when they are matched, and lower-cased for the i flag
inferContentHighlights(cleanedLines) ==
    LET lower == ToLower(Join(cleanedLines, <<" ">>))
        joinedLower == ToLower(Join(cleanedLines, <<"LF">>))
    IN  IF cleanedLines = <<>> THEN <<>>
        ELSE PushWhere(<<
          <<\E w \in {<<"a","d","d","_","l","i","b","r","a","r","y">>, <<"a","d","d","_","e","x","e","c","u","t","a","b","l","e">>, <<"t","a","r","g","e","t","_","l","i","n","k","_","l","i","b","r","a","r","i","e","s">>} : Includes(lower, w),
            <<"b","u","i","l","d"," ","t","a","r","g","e","t","s"," ","u","p","d","a","t","e","d">>>>,
          <<Includes(lower, <<"#","i","n","c","l","u","d","e">>), <<"i","n","c","l","u","d","e","s"," ","u","p","d","a","t","e","d">>>>,
          <<TestKw(lower, Kw(<<{<<"n","a","m","e","s","p","a","c","e">>}>>, TRUE, <<>>, 0)), <<"n","a","m","e","s","p","a","c","e"," ","u","p","d","a","t","e","d">>>>,
          <<TestKw(lower, Kw(<<{<<"c","l","a","s","s">>}>>, TRUE, <<>>, 0))
              \/ TestKw(lower, Kw(<<{<<"s","t","r","u","c","t">>}>>, TRUE, <<>>, 0)), <<"t","y","p","e"," ","d","e","f","i","n","i","t","i","o","n","s"," ","u","p","d","a","t","e","d">>>>,
          <<TestExport(lower) \/ TestWord(lower, <<"m","o","d","u","l","e",".","e","x","p","o","r","t","s">>), <<"e","x","p","o","r","t","s"," ","u","p","d","a","t","e","d">>>>,
          <<TestWordStart(lower, <<"f","i","x">>)
              \/ \E w \in {<<"b","u","g">>, <<"i","s","s","u","e">>, <<"c","r","a","s","h">>, <<"n","u","l","l"," ","p","o","i","n","t","e","r">>} : Includes(joinedLower, w),
            <<"b","u","g"," ","f","i","x">>>>,
          <<TestWordStart(lower, <<"p","e","r","f">>)
              \/ \E w \in {<<"o","p","t","i","m","i","s","e">>, <<"o","p","t","i","m","i","z","e">>, <<"l","a","t","e","n","c","y">>, <<"c","a","c","h","e">>} : Includes(lower, w),
            <<"p","e","r","f","o","r","m","a","n","c","e"," ","u","p","d","a","t","e">>>> >>)

\* addHighlight for every value of a list: values seen before are skipped
RECURSIVE AddHighlights(_, _)
AddHighlights(highlights, values) ==
    IF values = <<>> THEN highlights
    ELSE IF Head(values) = <<>> \/ Head(values) \in Range(highlights)
    THEN AddHighlights(highlights, Tail(values))
    ELSE AddHighlights(Append(highlights, Head(values)), Tail(values))

changeHintOf(changeType) ==
    IF changeType = "added" THEN <<<<"n","e","w"," ","f","i","l","e"," ","a","d","d","e","d">>>>
    ELSE IF changeType = "deleted" THEN <<<<"f","i","l","e"," ","r","e","m","o","v","e","d">>>>
    ELSE IF changeType = "renamed" THEN <<<<"f","i","l","e"," ","r","e","n","a","m","e","d">>>>
    ELSE <<>>

computeHighlights(filePath, cleanedLines, changeType) ==
    LET hinted == AddHighlights(<<>>, inferPathHighlights(filePath)
                                      \o inferContentHighlights(cleanedLines)
                                      \o changeHintOf(changeType))
    IN  IF hinted = <<>> /\ cleanedLines # <<>>
        THEN <<IF basename(filePath) # <<>> THEN <<"u","p","d","a","t","e"," ">> \o basename(filePath)
               ELSE <<"u","p","d","a","t","e"," ","f","i","l","e">>>>
        ELSE Take(hinted, 3)

\* addKeyword for every value of a list, up to the third keyword: a value is
\* trimmed, and skipped when it is empty or was seen in another case
RECURSIVE AddKeywords(_, _)
AddKeywords(keywords, values) ==
    IF values = <<>> \/ Len(keywords) >= 3 THEN keywords
    ELSE IF Trim(Head(values)) = <<>>
            \/ \E k \in 1..Len(keywords) : ToLower(keywords[k]) = ToLower(Trim(Head(values)))
    THEN AddKeywords(keywords, Tail(values))
    ELSE AddKeywords(Append(keywords, Trim(Head(values))), Tail(values))

\* the position where ([A-Za-z_]\w*) starts in a keyword pattern matched at i
NameStart(text, i, pat) == WsEnd(text, WordsEnd(text, i, pat.words))

KeyStarts(text, from, pat) ==
    {i \in from..Len(text) : MatchEnd(text, i, pat) > 0 /\ ~IsDigit(text[NameStart(text, i, pat)])}

\* the captures of text.matchAll(pattern) for a keyword pattern
RECURSIVE KeyCaptures(_, _, _)
KeyCaptures(text, from, pat) ==
    IF KeyStarts(text, from, pat) = {} THEN <<>>
    ELSE LET i == CHOOSE j \in KeyStarts(text, from, pat) :
                      \A k \in KeyStarts(text, from, pat) : j <= k
         IN  <<KwCapture(text, i, pat)>> \o KeyCaptures(text, MatchEnd(text, i, pat), pat)

\* the captures of /^\s*(?:[chars]+\s+)+([A-Za-z_]\w*)\s*\(/gm over the lines
\* from l on: a match starts at the start of a line and may run over the
\* lines that follow, up to the first "(", where the next search starts
RECURSIVE DeclCaptures(_, _, _)
DeclCaptures(lines, l, chars) ==
    IF l > Len(lines) THEN <<>>
    ELSE LET text == Join(SubSeq(lines, l, Len(lines)), <<" ">>)
             name == DeclCapture(text, chars)
             opens == {p \in 1..Len(text) : text[p] = "("}
             open == CHOOSE q \in opens : \A r \in opens : q <= r
             lineOfOpen == CHOOSE m \in l..Len(lines) :
                               /\ Len(Join(SubSeq(lines, l, m), <<" ">>)) >= open
                               /\ \A n \in l..(m - 1) : Len(Join(SubSeq(lines, l, n), <<" ">>)) < open
         IN  IF name = <<>> \/ IsDigit(name[1]) THEN DeclCaptures(lines, l + 1, chars)
             ELSE <<name>> \o DeclCaptures(lines, lineOfOpen + 1, chars)

\* the captures of /\bword\s*\(\s*([^\s\)]+)/gi
CallStarts(text, from, word) ==
    {i \in from..Len(text) :
        /\ WordBoundaryAt(text, i)
        /\ OccursAt(ToLower(text), word, i - 1)
        /\ LET o == WsEnd(text, i + Len(word))
           IN  /\ o <= Len(text) /\ text[o] = "("
               /\ WsEnd(text, o + 1) <= Len(text)
               /\ text[WsEnd(text, o + 1)] # ")"}

ArgEnd(text, s) ==
    CHOOSE j \in s..(Len(text) + 1) :
        /\ \A m \in s..(j - 1) : ~IsSpace(text[m]) /\ text[m] # ")"
        /\ (j <= Len(text) => IsSpace(text[j]) \/ text[j] = ")")

RECURSIVE CallCaptures(_, _, _)
CallCaptures(text, from, word) ==
    IF CallStarts(text, from, word) = {} THEN <<>>
    ELSE LET i == CHOOSE j \in CallStarts(text, from, word) :
                      \A k \in CallStarts(text, from, word) : j <= k
             s == WsEnd(text, WsEnd(text, i + Len(word)) + 1)
         IN  <<SubSeq(text, s, ArgEnd(text, s) - 1)>> \o CallCaptures(text, ArgEnd(text, s), word)

\* the matches of /[.#][a-zA-Z0-9_-]{2,}/g
IsSelectorChar(c) == IsAlnum(c) \/ c = "_" \/ c = "-"

SelectorEnd(text, s) ==
    CHOOSE j \in s..(Len(text) + 1) :
        /\ \A m \in s..(j - 1) : IsSelectorChar(text[m])
        /\ (j <= Len(text) => ~IsSelectorChar(text[j]))

SelectorStarts(text, from) ==
    {i \in from..Len(text) : text[i] \in {".", "#"} /\ SelectorEnd(text, i + 1) >= i + 3}

RECURSIVE Selectors(_, _)
Selectors(text, from) ==
    IF SelectorStarts(text, from) = {} THEN <<>>
    ELSE LET i == CHOOSE j \in SelectorStarts(text, from) :
                      \A k \in SelectorStarts(text, from) : j <= k
         IN  <<SubSeq(text, i, SelectorEnd(text, i + 1) - 1)>>
             \o Selectors(text, SelectorEnd(text, i + 1))

cssHints ==
    << <<"g","r","i","d">>, <<"f","l","e","x">>, <<"f","o","n","t">>, <<"c","o","l","o","r">>, <<"l","a","y","o","u","t">>, <<"g","a","p">>, <<"s","p","a","c","i","n","g">>, <<"p","a","d","d","i","n","g">>,
       <<"m","a","r","g","i","n">>, <<"b","a","c","k","g","r","o","u","n","d">>, <<"s","h","a","d","o","w">>, <<"b","o","r","d","e","r">>, <<"r","a","d","i","u","s">>, <<"a","n","i","m","a","t","i","o","n">>,
       <<"t","r","a","n","s","f","o","r","m">>, <<"t","r","a","n","s","i","t","i","o","n">> >>

\* the captures of a list of patterns, pattern after pattern
RECURSIVE AllKeyCaptures(_, _)
AllKeyCaptures(text, patterns) ==
    IF patterns = <<>> THEN <<>>
    ELSE KeyCaptures(text, 1, Head(patterns)) \o AllKeyCaptures(text, Tail(patterns))

RECURSIVE AllCallCaptures(_, _)
AllCallCaptures(text, words) ==
    IF words = <<>> THEN <<>>
    ELSE CallCaptures(text, 1, Head(words)) \o AllCallCaptures(text, Tail(words))

ScriptKeyPatterns ==
    << Kw(<<{<<"e","x","p","o","r","t">>}, {<<"c","o","n","s","t">>, <<"f","u","n","c","t","i","o","n">>, <<"c","l","a","s","s">>, <<"i","n","t","e","r","f","a","c","e">>, <<"t","y","p","e">>, <<"e","n","u","m">>}>>, TRUE, <<>>, 0),
       Kw(<<{<<"c","l","a","s","s">>}>>, TRUE, <<>>, 0),
       Kw(<<{<<"f","u","n","c","t","i","o","n">>}>>, TRUE, <<>>, 0),
       Kw(<<{<<"c","o","n","s","t">>}>>, TRUE, <<"=">>, 0),
       Kw(<<{<<"t","y","p","e">>}>>, TRUE, <<"=">>, 0),
       Kw(<<{<<"i","n","t","e","r","f","a","c","e">>}>>, TRUE, <<>>, 0) >>

NativeKeyPatterns ==
    << Kw(<<{<<"n","a","m","e","s","p","a","c","e">>}>>, TRUE, <<>>, 0),
       Kw(<<{<<"c","l","a","s","s">>}>>, TRUE, <<>>, 0),
       Kw(<<{<<"s","t","r","u","c","t">>}>>, TRUE, <<>>, 0),
       Kw(<<{<<"e","n","u","m">>}>>, TRUE, <<>>, 0) >>

CmakeKeyWords ==
    << <<"a","d","d","_","l","i","b","r","a","r","y">>, <<"a","d","d","_","e","x","e","c","u","t","a","b","l","e">>, <<"t","a","r","g","e","t","_","l","i","n","k","_","l","i","b","r","a","r","i","e","s">>, <<"s","e","t">> >>

\* lines.map(line => line.trim()).filter(Boolean)
RECURSIVE TrimmedNonEmpty(_)
TrimmedNonEmpty(lines) ==
    IF lines = <<>> THEN <<>>
    ELSE IF Trim(Head(lines)) = <<>> THEN TrimmedNonEmpty(Tail(lines))
    ELSE <<Trim(Head(lines))>> \o TrimmedNonEmpty(Tail(lines))

extractKeywords(filePath, addedLines, removedLines) ==
    LET sample == Take(TrimmedNonEmpty(addedLines \o removedLines), 200)
        joined == Join(sample, <<" ">>)
        lowerPath == ToLower(filePath)
        isCss == \E e \in {<<".","c","s","s">>, <<".","s","c","s","s">>, <<".","s","a","s","s">>, <<".","l","e","s","s">>} : EndsWith(lowerPath, e)
        lang == detectLang(filePath)
        css == IF isCss
               THEN Selectors(joined, 1)
                    \o PushWhere([h \in 1..Len(cssHints) |->
                                     <<Includes(ToLower(joined), cssHints[h]), cssHints[h]>>])
               ELSE <<>>
        script == IF lang \in {"ts", "js"} THEN AllKeyCaptures(joined, ScriptKeyPatterns) ELSE <<>>
        native == IF lang \in {"cpp", "c"}
                  THEN AllKeyCaptures(joined, NativeKeyPatterns)
                       \o DeclCaptures(sample, 1, {":", "<", ">", "~", "*", "&"})
                  ELSE <<>>
        cmake == IF lang = "cmake" THEN AllCallCaptures(joined, CmakeKeyWords) ELSE <<>>
    IN  IF sample = <<>> THEN <<>>
        ELSE AddKeywords(<<>>, css \o script \o native \o cmake)

\* the FileSummary of a block whose context labels are contextLabels
FileSummaryOf(filePath, changeType, parsedLines, contextLabels) ==
    IF changeType = "binary"
    THEN [path |-> filePath, changeType |-> changeType, additions |-> 0, deletions |-> 0,
          context |-> <<>>,
          highlights |-> <<<<"b","i","n","a","r","y"," ","f","i","l","e"," ","u","p","d","a","t","e","d">>>>,
          keywords |-> <<>>, weight |-> 1]
    ELSE [path |-> filePath, changeType |-> changeType,
          additions |-> parsedLines.additions, deletions |-> parsedLines.deletions,
          context |-> contextLabels,
          highlights |-> computeHighlights(filePath, parsedLines.cleanedLines, changeType),
          keywords |-> extractKeywords(filePath, parsedLines.addedLines, parsedLines.removedLines),
          weight |-> computeWeight(filePath, parsedLines.cleanedLines)]

summarizeFileBlock(repoRoot, b) ==
    FileSummaryOf(FilePathOf(b), detectChangeType(b), parseDiffLines(b),
                  findContextLabels(repoRoot, FilePathOf(b), parseDiffLines(b).hunkStarts))

EmptySummary == [files |-> <<>>, lockfileSummaries |-> <<>>, languageSignals |-> <<>>,
                 totalAdditions |-> 0, totalDeletions |-> 0]

\* languageSignals[lang] = (languageSignals[lang] ?? 0) + weight
AddSignal(signals, lang, weight) ==
    IF lang = "none" THEN signals
    ELSE MapSet(signals, lang, (IF MapHas(signals, lang) THEN MapGet(signals, lang) ELSE 0) + weight)

AddFile(acc, f) ==
    [acc EXCEPT !.files = Append(@, f),
                !.totalAdditions = @ + f.additions,
                !.totalDeletions = @ + f.deletions,
                !.languageSignals = AddSignal(@, detectLang(f.path), f.weight)]

\* the same with lockfile blocks summarized as files too
SummarizeBlockNoLockfiles(repoRoot, acc, b) ==
    IF FilePathOf(b) = <<>> THEN acc ELSE AddFile(acc, summarizeFileBlock(repoRoot, b))

\* one iteration of the loop of preprocessDiff
SummarizeBlock(repoRoot, acc, b) ==
    IF FilePathOf(b) = <<>> THEN acc
    ELSE IF basename(FilePathOf(b)) \in LOCKFILES
    THEN [acc EXCEPT !.lockfileSummaries = @ \o summarizeLockfile(b, FilePathOf(b))]
    ELSE AddFile(acc, summarizeFileBlock(repoRoot, b))

RECURSIVE SummarizeBlocks(_, _, _)
SummarizeBlocks(repoRoot, acc, blocks) ==
    IF blocks = <<>> THEN acc
    ELSE SummarizeBlocks(repoRoot, SummarizeBlock(repoRoot, acc, Head(blocks)), Tail(blocks))

TruncationMarker == <<"LF">> \o <<".",".",".","d","i","f","f"," ","t","r","u","n","c","a","t","e","d",".",".",".">>

\* the same, cutting one character late
RawDiffOfLate(text, limit) ==
    IF Len(text) > limit THEN SubSeq(text, 1, limit + 1) \o TruncationMarker ELSE text

\* truncated ? diff.slice(0, maxChars) + '\n...diff truncated...' : diff
RawDiffOf(text, limit) ==
    IF Len(text) > limit THEN SubSeq(text, 1, limit) \o TruncationMarker ELSE text

\* the default of the parameter maxChars
maxChars == 28000

preprocessDiff(repoRoot, lines, limit) ==
    [done |-> TRUE, rawDiff |-> RawDiffOf(DiffText(lines), limit),
     truncated |-> Len(DiffText(lines)) > limit]
    @@ SummarizeBlocks(repoRoot, EmptySummary, FileBlocks(lines))

-----------------------------------------------------------------------------
(* SpecPre: preprocessDiff applied to every diff of the bounded input      *)

\* the blocks diffs are made of, as git prints them
BlockPool ==
    << << <<"d","i","f","f"," ","-","-","g","i","t"," ","a","/","s","r","c","/","a","u","t","h","/","l","o","g","i","n",".","t","s"," ","b","/","s","r","c","/","a","u","t","h","/","l","o","g","i","n",".","t","s">>,
          <<"i","n","d","e","x"," ","1","a","2","b","3","c","4",".",".","5","d","6","e","7","f","8"," ","1","0","0","6","4","4">>,
          <<"-","-","-"," ","a","/","s","r","c","/","a","u","t","h","/","l","o","g","i","n",".","t","s">>,
          <<"+","+","+"," ","b","/","s","r","c","/","a","u","t","h","/","l","o","g","i","n",".","t","s">>,
          <<"@","@"," ","-","1","0",",","4"," ","+","1","0",",","6"," ","@","@"," ","e","x","p","o","r","t"," ","c","l","a","s","s"," ","L","o","g","i","n">>,
          <<"+","e","x","p","o","r","t"," ","f","u","n","c","t","i","o","n"," ","l","o","g","i","n","(","u","s","e","r",")"," ","{">>,
          <<"+","i","n","t","e","r","f","a","c","e"," ","S","e","s","s","i","o","n"," ","{"," ","i","d",":"," ","s","t","r","i","n","g"," ","}">>,
          <<"-","f","u","n","c","t","i","o","n"," ","o","l","d"," ","(",")"," ","{">>,
          <<"+","c","o","n","s","t"," ","c","h","e","c","k"," ","="," ","(","t",")"," ","=",">"," ","t",";"," ","c","o","n","s","t"," ","n"," ","="," ","1",";"," ","c","l","a","s","s"," ","A"," ","e","x","t","e","n","d","s"," ","B"," ","{","}">> >>,
       << <<"d","i","f","f"," ","-","-","g","i","t"," ","a","/","p","a","c","k","a","g","e","-","l","o","c","k",".","j","s","o","n"," ","b","/","p","a","c","k","a","g","e","-","l","o","c","k",".","j","s","o","n">>,
          <<"i","n","d","e","x"," ","1","a","2","b","3","c","4",".",".","5","d","6","e","7","f","8"," ","1","0","0","6","4","4">>,
          <<"-","-","-"," ","a","/","p","a","c","k","a","g","e","-","l","o","c","k",".","j","s","o","n">>,
          <<"+","+","+"," ","b","/","p","a","c","k","a","g","e","-","l","o","c","k",".","j","s","o","n">>,
          <<"@","@"," ","-","7",",","3"," ","+","7",",","3"," ","@","@">>,
          <<"-"," "," "," "," "," "," ","DQ","v","e","r","s","i","o","n","DQ",":"," ","DQ","1",".","0",".","0","DQ",",">>,
          <<"+"," "," "," "," "," "," ","DQ","v","e","r","s","i","o","n","DQ"," ",":"," ","DQ","1",".","0",".","1","DQ",",">>,
          <<"+"," "," "," "," "," "," ","DQ","r","e","s","o","l","v","e","d","DQ",":"," ","DQ","h","t","t","p","s",":","/","/","r","e","g","i","s","t","r","y",".","n","p","m","j","s",".","o","r","g","/","l","e","f","t","-","p","a","d","/","-","/","l","e","f","t","-","p","a","d","-","1",".","0",".","1",".","t","g","z","DQ">> >>,
       << <<"d","i","f","f"," ","-","-","g","i","t"," ","a","/","p","a","c","k","a","g","e","-","l","o","c","k",".","j","s","o","n"," ","b","/","p","a","c","k","a","g","e","-","l","o","c","k",".","j","s","o","n">>,
          <<"n","e","w"," ","f","i","l","e"," ","m","o","d","e"," ","1","0","0","6","4","4">>,
          <<"i","n","d","e","x"," ","0","0","0","0","0","0","0",".",".","5","d","6","e","7","f","8">>,
          <<"-","-","-"," ","/","d","e","v","/","n","u","l","l">>,
          <<"+","+","+"," ","b","/","p","a","c","k","a","g","e","-","l","o","c","k",".","j","s","o","n">>,
          <<"@","@"," ","-","0",",","0"," ","+","1",",","2"," ","@","@">>,
          <<"+","{">>,
          <<"+","}">> >>,
       << <<"d","i","f","f"," ","-","-","g","i","t"," ","a","/","p","a","c","k","a","g","e","-","l","o","c","k",".","j","s","o","n"," ","b","/","p","a","c","k","a","g","e","-","l","o","c","k",".","j","s","o","n">>,
          <<"d","e","l","e","t","e","d"," ","f","i","l","e"," ","m","o","d","e"," ","1","0","0","6","4","4">>,
          <<"i","n","d","e","x"," ","5","d","6","e","7","f","8",".",".","0","0","0","0","0","0","0">>,
          <<"-","-","-"," ","a","/","p","a","c","k","a","g","e","-","l","o","c","k",".","j","s","o","n">>,
          <<"+","+","+"," ","/","d","e","v","/","n","u","l","l">>,
          <<"@","@"," ","-","1",",","2"," ","+","0",",","0"," ","@","@">>,
          <<"-","{">>,
          <<"-","}">> >>,
       << <<"d","i","f","f"," ","-","-","g","i","t"," ","a","/","w","e","b","/","p","n","p","m","-","l","o","c","k",".","y","a","m","l"," ","b","/","w","e","b","/","p","n","p","m","-","l","o","c","k",".","y","a","m","l">>,
          <<"i","n","d","e","x"," ","1","a","2","b","3","c","4",".",".","5","d","6","e","7","f","8"," ","1","0","0","6","4","4">>,
          <<"-","-","-"," ","a","/","w","e","b","/","p","n","p","m","-","l","o","c","k",".","y","a","m","l">>,
          <<"+","+","+"," ","b","/","w","e","b","/","p","n","p","m","-","l","o","c","k",".","y","a","m","l">>,
          <<"@","@"," ","-","3",",","2"," ","+","3",",","3"," ","@","@">>,
          <<"-"," "," ","/","l","o","d","a","s","h">> \o <<AtSign>> \o <<"4",".","1","7",".","2","0",":">>,
          <<"+"," "," ","/","l","o","d","a","s","h">> \o <<AtSign>> \o <<"4",".","1","7",".","2","1",":">>,
          <<"+"," "," ","/">> \o <<AtSign>> \o <<"t","y","p","e","s","/","n","o","d","e">> \o <<AtSign>> \o <<"2","0",".","1",".","0",":">>,
          <<"+"," "," "," "," ","V","e","r","s","i","o","n",":"," ","2","0",".","1",".","0">> >>,
       << <<"d","i","f","f"," ","-","-","g","i","t"," ","a","/","p","a","c","k","a","g","e","-","l","o","c","k",".","j","s","o","n"," ","b","/","p","a","c","k","a","g","e","-","l","o","c","k",".","j","s","o","n">>,
          <<"o","l","d"," ","m","o","d","e"," ","1","0","0","6","4","4">>,
          <<"n","e","w"," ","m","o","d","e"," ","1","0","0","7","5","5">> >>,
       << <<"d","i","f","f"," ","-","-","g","i","t"," ","a","/","R","E","A","D","M","E",".","m","d"," ","b","/","R","E","A","D","M","E",".","m","d">>,
          <<"-","-","-"," ","a","/","R","E","A","D","M","E",".","m","d">>,
          <<"+","+","+"," ","b","/","R","E","A","D","M","E",".","m","d">>,
          <<"@","@"," ","-","1"," ","+","1",",","2"," ","@","@">>,
          <<"+","c","l","a","s","s"," ","F","o","o"," ","i","s"," ","d","o","c","u","m","e","n","t","e","d"," ","h","e","r","e">> >>,
       << <<"d","i","f","f"," ","-","-","g","i","t"," ","a","/","p","a","r","s","e","r",".","r","s"," ","b","/","p","a","r","s","e","r",".","r","s">>,
          <<"-","-","-"," ","a","/","p","a","r","s","e","r",".","r","s">>,
          <<"+","+","+"," ","b","/","p","a","r","s","e","r",".","r","s">>,
          <<"@","@"," ","-","1",",","3"," ","+","1",",","3"," ","@","@">>,
          <<"+","p","u","b"," ","f","n"," ","p","a","r","s","e","_","e","x","p","r"," ","(","i","n","p","u","t",":"," ","&","s","t","r",")"," ","{">>,
          <<"-","f","n"," ","p","a","r","s","e","(","i","n","p","u","t",":"," ","&","s","t","r",")"," ","{">>,
          <<"+","i","m","p","l"," ","P","a","r","s","e","r"," ","{"," ","s","t","r","u","c","t"," "," ","I","n","n","e","r",";"," ","}","	","e","n","u","m"," ","E"," ","{","}"," ","t","r","a","i","t"," ","T">>,
          <<"+","l","e","t"," ","s","t","r","u","c","t","u","r","e"," ","="," ","f","n","_","p","t","r"," ","(","x",")",";">> >>,
       << <<"d","i","f","f"," ","-","-","g","i","t"," ","a","/","i","m","g","/","l","o","g","o",".","p","n","g"," ","b","/","i","m","g","/","l","o","g","o",".","p","n","g">>,
          <<"i","n","d","e","x"," ","1","a","2","b","3","c","4",".",".","5","d","6","e","7","f","8"," ","1","0","0","6","4","4">>,
          <<"B","i","n","a","r","y"," ","f","i","l","e","s"," ","a","/","i","m","g","/","l","o","g","o",".","p","n","g"," ","a","n","d"," ","b","/","i","m","g","/","l","o","g","o",".","p","n","g"," ","d","i","f","f","e","r">>,
          <<"-","-","-"," ","a","/","i","m","g","/","l","o","g","o",".","p","n","g">>,
          <<"+","+","+"," ","b","/","i","m","g","/","l","o","g","o",".","p","n","g">> >>,
       << <<"d","i","f","f"," ","-","-","g","i","t"," ","a","/","i","m","g","/","i","c","o","n",".","p","n","g"," ","b","/","i","m","g","/","i","c","o","n",".","p","n","g">>,
          <<"i","n","d","e","x"," ","1","a","2","b","3","c","4",".",".","5","d","6","e","7","f","8"," ","1","0","0","6","4","4">>,
          <<"B","i","n","a","r","y"," ","f","i","l","e","s"," ","a","/","i","m","g","/","i","c","o","n",".","p","n","g"," ","a","n","d"," ","b","/","i","m","g","/","i","c","o","n",".","p","n","g"," ","d","i","f","f","e","r">> >>,
       << <<"d","i","f","f"," ","-","-","g","i","t"," ","a","/","i","m","g","/","n","e","w",".","p","n","g"," ","b","/","i","m","g","/","n","e","w",".","p","n","g">>,
          <<"n","e","w"," ","f","i","l","e"," ","m","o","d","e"," ","1","0","0","6","4","4">>,
          <<"i","n","d","e","x"," ","0","0","0","0","0","0","0",".",".","5","d","6","e","7","f","8">>,
          <<"B","i","n","a","r","y"," ","f","i","l","e","s"," ","/","d","e","v","/","n","u","l","l"," ","a","n","d"," ","b","/","i","m","g","/","n","e","w",".","p","n","g"," ","d","i","f","f","e","r">> >>,
       << <<"d","i","f","f"," ","-","-","g","i","t"," ","a","/","i","m","g","/","a","r","t",".","p","n","g"," ","b","/","i","m","g","/","a","r","t",".","p","n","g">>,
          <<"n","e","w"," ","f","i","l","e"," ","m","o","d","e"," ","1","0","0","6","4","4">>,
          <<"i","n","d","e","x"," ","0","0","0","0","0","0","0",".",".","5","d","6","e","7","f","8">>,
          <<"B","i","n","a","r","y"," ","f","i","l","e","s"," ","/","d","e","v","/","n","u","l","l"," ","a","n","d"," ","b","/","i","m","g","/","a","r","t",".","p","n","g"," ","d","i","f","f","e","r">>,
          <<"-","-","-"," ","/","d","e","v","/","n","u","l","l">>,
          <<"+","+","+"," ","b","/","i","m","g","/","a","r","t",".","p","n","g">> >>,
       << <<"d","i","f","f"," ","-","-","g","i","t"," ","a","/","s","r","c","/","m","a","i","n",".","c"," ","b","/","s","r","c","/","M","a","i","n",".","C">>,
          <<"s","i","m","i","l","a","r","i","t","y"," ","i","n","d","e","x"," ","9","0","%">>,
          <<"r","e","n","a","m","e"," ","f","r","o","m"," ","s","r","c","/","m","a","i","n",".","c">>,
          <<"r","e","n","a","m","e"," ","t","o"," ","s","r","c","/","M","a","i","n",".","C">>,
          <<"-","-","-"," ","a","/","s","r","c","/","m","a","i","n",".","c">>,
          <<"+","+","+"," ","b","/","s","r","c","/","M","a","i","n",".","C"," ">>,
          <<"@","@"," ","-","1",",","2"," ","+","1",",","2"," ","@","@">>,
          <<"+","s","t","a","t","i","c"," ","i","n","t"," ","*","r","u","n"," ","(","v","o","i","d",")"," ","{">>,
          <<"+"," "," ","s","t","a","t","i","c"," ","u","n","s","i","g","n","e","d"," ","l","o","n","g"," ","c","o","u","n","t","(","i","n","t"," ","x",")",";">>,
          <<"+","i","n","t"," ","*","b","a","d","(","v","o","i","d",")",";">>,
          <<"-","s","t","r","u","c","t"," ","p","o","i","n","t"," ","p",";"," ","e","n","u","m"," ","c","o","l","o","r"," ","c",";">> >>,
       << <<"d","i","f","f"," ","-","-","g","i","t"," ","a","/","C","M","a","k","e","L","i","s","t","s",".","t","x","t"," ","b","/","C","M","a","k","e","L","i","s","t","s",".","t","x","t">>,
          <<"-","-","-"," ","a","/","C","M","a","k","e","L","i","s","t","s",".","t","x","t">>,
          <<"+","+","+"," ","b","/","C","M","a","k","e","L","i","s","t","s",".","t","x","t">>,
          <<"@","@"," ","-","1",",","2"," ","+","1",",","4"," ","@","@">>,
          <<"+","a","d","d","_","l","i","b","r","a","r","y","(","c","o","r","e"," ","S","T","A","T","I","C"," ","a",".","c",")"," ","s","e","t"," ","(","X"," ","1",")">>,
          <<"+","a","d","d","_","e","x","e","c","u","t","a","b","l","e"," ","(","a","p","p"," ","m","a","i","n",".","c",")">>,
          <<"+","t","a","r","g","e","t","_","l","i","n","k","_","l","i","b","r","a","r","i","e","s","(","a","p","p"," ","c","o","r","e",")"," ","r","e","s","e","t","(","Y",")"," ","u","n","s","e","t","(","Z",")">> >>,
       << <<"d","i","f","f"," ","-","-","g","i","t"," ","a","/","a","p","p",".","p","y"," ","b","/","a","p","p",".","p","y">>,
          <<"-","-","-"," ","a","/","a","p","p",".","p","y">>,
          <<"+","+","+"," ","b","/","a","p","p",".","p","y">>,
          <<"@","@"," ","-","1",",","2"," ","+","1",",","4"," ","@","@">>,
          <<"+","c","l","a","s","s"," ","F","o","o","(","B","a","s","e",")",":">>,
          <<"+"," "," "," "," ","d","e","f"," ","b","a","r","(","s","e","l","f",")",":"," ","p","a","s","s">>,
          <<"+","x"," ","="," ","1">> >>,
       << <<"d","i","f","f"," ","-","-","g","i","t"," ","a","/","u","t","i","l",".","j","s"," ","b","/","u","t","i","l",".","j","s">>,
          <<"-","-","-"," ","a","/","u","t","i","l",".","j","s">>,
          <<"+","+","+"," ","b","/","u","t","i","l",".","j","s">>,
          <<"@","@"," ","-","1",",","2"," ","+","1",",","4"," ","@","@">>,
          <<"+","e","x","p","o","r","t"," ","c","o","n","s","t"," ","f"," ","="," ","(","x",")"," ","=",">"," ","x">>,
          <<"+","e","x","p","o","r","t"," "," ","f","u","n","c","t","i","o","n"," ","g","(",")"," ","{"," ","f","u","n","c","t","i","o","n"," ","h"," ","(",")"," ","{","}"," ","}">>,
          <<"+","e","x","p","o","r","t","s",".","f","u","n","c","t","i","o","n"," ","="," ","1">> >>,
       << <<"d","i","f","f"," ","-","-","g","i","t"," ","a","/","l","i","b","/","c","o","r","e",".","h","p","p"," ","b","/","l","i","b","/","c","o","r","e",".","h","p","p">>,
          <<"-","-","-"," ","a","/","l","i","b","/","c","o","r","e",".","h","p","p">>,
          <<"+","+","+"," ","b","/","l","i","b","/","c","o","r","e",".","h","p","p">>,
          <<"@","@"," ","-","1",",","2"," ","+","1",",","4"," ","@","@">>,
          <<"+","n","a","m","e","s","p","a","c","e"," ","c","o","r","e"," ","{"," ","c","l","a","s","s"," ","E","n","g","i","n","e",";"," ","}">>,
          <<"+","s","t","d",":",":","v","e","c","t","o","r","<","i","n","t",">"," ","&","E","n","g","i","n","e",":",":","r","u","n"," ","(","i","n","t"," ","n",")">>,
          <<"+","c","o","n","s","t"," ","s","t","d",":",":","s","t","r","i","n","g","&"," ","n","a","m","e","(","v","o","i","d",")",";">> >>,
       << <<"d","i","f","f"," ","-","-","g","i","t"," ","a","/","n","o","t","e","s",".","t","x","t"," ","b","/","n","o","t","e","s",".","t","x","t">>,
          <<"-","-","-"," ","a","/","n","o","t","e","s",".","t","x","t">>,
          <<"+","+","+"," ","b","/","n","o","t","e","s",".","t","x","t">>,
          <<"@","@"," ","-","1"," ","+","1"," ","@","@">>,
          <<"-","o","l","d">>,
          <<"+","n","e","w">> >>,
       << <<"d","i","f","f"," ","-","-","g","i","t"," ","a","/","s","r","c","/","a","u","t","h","/","s","e","s","s","i","o","n",".","t","s"," ","b","/","s","r","c","/","a","u","t","h","/","s","e","s","s","i","o","n",".","t","s">>,
          <<"-","-","-"," ","a","/","s","r","c","/","a","u","t","h","/","s","e","s","s","i","o","n",".","t","s">>,
          <<"+","+","+"," ","b","/","s","r","c","/","a","u","t","h","/","s","e","s","s","i","o","n",".","t","s">>,
          <<"@","@"," ","-","4",",","3"," ","+","4",",","3"," ","@","@">>,
          <<"-"," "," ","r","e","t","u","r","n"," ","n","u","l","l",";">>,
          <<"+"," "," ","r","e","t","u","r","n"," ","c","l","a","s","s","i","f","y","(","t","o","k","e","n",")",";">> >>,
       << <<"d","i","f","f"," ","-","-","g","i","t"," ","a","/","w","e","b","/","s","i","t","e",".","c","s","s"," ","b","/","w","e","b","/","s","i","t","e",".","c","s","s">>,
          <<"-","-","-"," ","a","/","w","e","b","/","s","i","t","e",".","c","s","s">>,
          <<"+","+","+"," ","b","/","w","e","b","/","s","i","t","e",".","c","s","s">>,
          <<"@","@"," ","-","1",",","2"," ","+","1",",","3"," ","@","@">>,
          <<"+",".","b","t","n","-","p","r","i","m","a","r","y"," ","{"," ","c","o","l","o","r",":"," ","r","e","d",";"," ","m","a","r","g","i","n",":"," ","1",".","2","5","r","e","m"," ","}">>,
          <<"-","#","n","a","v"," ",".","x"," ","{"," ","d","i","s","p","l","a","y",":"," ","f","l","e","x"," ","}">> >> >>

\* the largest number of blocks of a diff
MaxBlocks == 2

DiffLines(choice) == Flatten([i \in 1..Len(choice) |-> BlockPool[choice[i]]])

\* ceilings around the length of the text, and the default
Ceilings(lines) ==
    {c \in {0, Len(DiffText(lines)) - 1, Len(DiffText(lines)), maxChars} : c >= 0}

\* the paths of the files of a diff
PathsOf(lines) == {FilePathOf(FileBlocks(lines)[i]) : i \in 1..Len(FileBlocks(lines))}

\* the working trees a diff is preprocessed in: every file can be read, or one
\* file of the diff cannot, or none of them can
RepoRoots(lines) ==
    {TreePaths, TreePaths \ PathsOf(lines)} \cup {TreePaths \ {p} : p \in PathsOf(lines)}

PreInputs ==
    UNION {{[repoRoot |-> TreePaths, lines |-> DiffLines(choice), maxChars |-> c] :
               c \in Ceilings(DiffLines(choice))}
           \cup {[repoRoot |-> r, lines |-> DiffLines(choice), maxChars |-> maxChars] :
                    r \in RepoRoots(DiffLines(choice))} :
              choice \in UNION {[1..n -> 1..Len(BlockPool)] : n \in 0..MaxBlocks}}

InitPre ==
    /\ pIn \in PreInputs
    /\ pOut = NoPreOut
    /\ block = BlockHeader
    /\ parsed = NotParsed
    /\ nIn = NoNormIn
    /\ nOut = NoNormOut
    /\ LifeIdle

\* a call preprocessDiff(repoRoot, diff, maxChars)
PreprocessDiff ==
    /\ ~pOut.done
    /\ pOut' = preprocessDiff(pIn.repoRoot, pIn.lines, pIn.maxChars)
    /\ UNCHANGED <<pIn, block, parsed, normVars, lifeVars>>

NextPre == PreprocessDiff

SpecPre == InitPre /\ [][NextPre]_vars


-----------------------------------------------------------------------------
(* Claims about the Diff Preprocessor                                      *)

\* C12: a raw diff longer than the ceiling comes back as its first maxChars
\* characters followed by the truncation marker, with truncated set; a raw
\* diff of at most maxChars characters comes back unchanged, truncated unset
C12_TruncationAtCeiling ==
    pOut.done =>
        IF Len(DiffText(pIn.lines)) > pIn.maxChars
        THEN /\ pOut.truncated
             /\ Len(pOut.rawDiff) = pIn.maxChars + 21
             /\ \A i \in 1..pIn.maxChars : pOut.rawDiff[i] = DiffText(pIn.lines)[i]
             /\ SubSeq(pOut.rawDiff, pIn.maxChars + 1, Len(pOut.rawDiff))
                   = <<"LF">> \o <<".",".",".","d","i","f","f"," ","t","r","u","n","c","a","t","e","d",".",".",".">>
        ELSE /\ ~pOut.truncated
             /\ pOut.rawDiff = DiffText(pIn.lines)

C12_Witness ==
    /\ pOut.done
    /\ pOut.truncated
    /\ pIn.maxChars > 0
    /\ Len(DiffText(pIn.lines)) = pIn.maxChars + 1
    /\ Len(pOut.files) = 2

\* the path after the last " b/" of a block's "diff --git a/... b/..." header
HeaderTarget(header) ==
    IF ~Includes(header, <<" ","b","/">>) THEN <<>>
    ELSE SliceFrom(header, (CHOOSE i \in 0..Len(header) :
                               /\ OccursAt(header, <<" ","b","/">>, i)
                               /\ \A j \in (i + 1)..Len(header) : ~OccursAt(header, <<" ","b","/">>, j)) + 3)

IsLockfileBlock(b) ==
    LastSegment(HeaderTarget(b[1])) \in {<<"p","a","c","k","a","g","e","-","l","o","c","k",".","j","s","o","n">>, <<"p","n","p","m","-","l","o","c","k",".","y","a","m","l">>}

LockfileBlockCount(blocks) ==
    Cardinality({i \in 1..Len(blocks) : IsLockfileBlock(blocks[i])})

\* the lines of the blocks that are not lockfile blocks
OtherLines(blocks) ==
    Flatten([i \in 1..Len(blocks) |-> IF IsLockfileBlock(blocks[i]) THEN <<>> ELSE blocks[i]])

SameFilesAndTotals(r, s) ==
    /\ r.files = s.files
    /\ r.totalAdditions = s.totalAdditions
    /\ r.totalDeletions = s.totalDeletions
    /\ r.languageSignals = s.languageSignals

\* C13: every block whose target path has a lockfile basename adds exactly one
\* entry to lockfileSummaries and nothing to files, totalAdditions,
\* totalDeletions or languageSignals; a diff of package-lock.json changes
\* only yields no file and exactly one lockfile summary
C13_LockfileBlocksSummarizedApart ==
    pOut.done =>
        /\ Len(pOut.lockfileSummaries) = LockfileBlockCount(FileBlocks(pIn.lines))
        /\ SameFilesAndTotals(pOut, preprocessDiff(pIn.repoRoot, OtherLines(FileBlocks(pIn.lines)), pIn.maxChars))
        /\ (Len(FileBlocks(pIn.lines)) = 1
              /\ HeaderTarget(pIn.lines[1]) = <<"p","a","c","k","a","g","e","-","l","o","c","k",".","j","s","o","n">>)
              => (pOut.files = <<>> /\ Len(pOut.lockfileSummaries) = 1)

\* the same for diffs in which every lockfile block carries a "+++"/"---" path line
C13_HoldsForBlocksWithPathLines ==
    (\A i \in 1..Len(FileBlocks(pIn.lines)) :
        IsLockfileBlock(FileBlocks(pIn.lines)[i]) => FilePathOf(FileBlocks(pIn.lines)[i]) # <<>>)
        => C13_LockfileBlocksSummarizedApart

-----------------------------------------------------------------------------
(* Claims about the hints derived from the diff                            *)

\* the diff of src/auth/login.ts (+40/-5) and src/auth/session.ts (+3/-1)
AuthDiff == DiffOf(Window(1, 2))

\* C14: for the diff of src/auth/login.ts (+40/-5) and src/auth/session.ts
\* (+3/-1), the message of the fallback path has type feat and scope auth and
\* starts with "feat(auth): "
C14_FallbackIsFeatAuth ==
    (nOut.path = "fallback" /\ nIn.diff = AuthDiff /\ nIn.promptConfig.prefix = <<>>) =>
        /\ nOut.message.type = <<"f","e","a","t">>
        /\ nOut.message.scope = <<"a","u","t","h">>
        /\ StartsWith(nOut.message.head, <<"f","e","a","t","(","a","u","t","h",")",":"," ">>)

\* what the fallback path gives for that diff
C14_FallbackIsFeatSrc ==
    (nOut.path = "fallback" /\ nIn.diff = AuthDiff /\ nIn.promptConfig.prefix = <<>>) =>
        /\ nOut.message.type = <<"f","e","a","t">>
        /\ nOut.message.scope = <<"s","r","c">>
        /\ StartsWith(nOut.message.head, <<"f","e","a","t","(","s","r","c",")",":"," ">>)

AllPathsEndWith(files, suffix) == \A i \in 1..Len(files) : EndsWith(files[i].path, suffix)

\* C15: for a diff whose files all have paths that end in .md, with at least
\* one added line, deriveType returns docs, whatever else the paths contain
C15_MarkdownOnlyIsDocs ==
    (nOut.path = "hints" /\ nIn.diff.files # <<>> /\ AllPathsEndWith(nIn.diff.files, <<".","m","d">>)
        /\ nIn.diff.totalAdditions >= 1)
        => nOut.hints.typeHint = <<"d","o","c","s">>

\* the same for .md paths without "test" or "spec" in them
C15_HoldsWithoutTestOrSpec ==
    (\A i \in 1..Len(nIn.diff.files) :
         /\ ~Includes(ToLower(nIn.diff.files[i].path), <<"t","e","s","t">>)
         /\ ~Includes(ToLower(nIn.diff.files[i].path), <<"s","p","e","c">>))
        => C15_MarkdownOnlyIsDocs

NoFileInBucket(files) == \A i \in 1..Len(files) : Bucket(files[i]) = "code"

\* C16: when no file is in the test, docs or config bucket, deriveType returns
\* refactor if the total deletions exceed the total additions and feat if not
C16_CodeOnlyIsRefactorOrFeat ==
    (nOut.path = "hints" /\ NoFileInBucket(nIn.diff.files)) =>
        nOut.hints.typeHint = (IF nIn.diff.totalDeletions > nIn.diff.totalAdditions
                               THEN <<"r","e","f","a","c","t","o","r">> ELSE <<"f","e","a","t">>)

C16_Witness ==
    /\ nOut.path = "hints"
    /\ Len(nIn.diff.files) = 2
    /\ NoFileInBucket(nIn.diff.files)
    /\ nIn.diff.totalDeletions > nIn.diff.totalAdditions
    /\ nOut.hints.typeHint = <<"r","e","f","a","c","t","o","r">>

\* additions + deletions, the weight when that is 0
RankScore(f) == IF f.additions + f.deletions > 0 THEN f.additions + f.deletions ELSE f.weight

\* the position of the highest-ranked file: the largest score, the earliest
\* file among equals
TopRanked(files) ==
    CHOOSE i \in 1..Len(files) : \A j \in 1..Len(files) :
        \/ RankScore(files[i]) > RankScore(files[j])
        \/ (RankScore(files[i]) = RankScore(files[j]) /\ i <= j)

TopLevelDirectory(path) ==
    IF \E k \in 1..Len(path) : path[k] = "/"
    THEN SubSeq(path, 1, (CHOOSE k \in 1..Len(path) :
                             path[k] = "/" /\ \A m \in 1..(k - 1) : path[m] # "/") - 1)
    ELSE <<"c","o","r","e">>

\* C19: the scope hint is the top-level directory of the highest-ranked file
\* (by additions + deletions, else weight, descending, stable), "core" when
\* that path has no directory, "repo" when no file changed
C19_ScopeOfHighestRanked ==
    nOut.path = "hints" =>
        nOut.hints.scopeHint =
            (IF nIn.diff.files = <<>> THEN <<"r","e","p","o">>
             ELSE TopLevelDirectory(nIn.diff.files[TopRanked(nIn.diff.files)].path))

\* what the code gives: the scope of the first file of the diff
C19_ScopeOfFirstFile ==
    nOut.path = "hints" =>
        nOut.hints.scopeHint =
            (IF nIn.diff.files = <<>> THEN <<"r","e","p","o">>
             ELSE TopLevelDirectory(nIn.diff.files[1].path))

-----------------------------------------------------------------------------
(* Claims about the replacement of the model's subject                     *)

\* the subject of the model's output as ensureSpecificSubject receives it
ModelSubject(in) ==
    Trim(SubjectRaw(BaseSubjectLine(sanitizeCommitOutput(in.content), in.diff,
                                    in.promptConfig, in.lang)))

\* the number of required tokens that have a variant in the subject
MatchedCount(subject, tokens) ==
    Cardinality({t \in Range(tokens) : VariantInSubject(subject, t)})

\* C17: when the model's subject matches fewer than requiredTokenCount of the
\* required tokens (there being some), it is discarded: the final subject is the one synthesized
\* from the ranked files and contains the basename of the top-ranked file
C17_UnmatchedSubjectReplaced ==
    (nOut.path = "content" /\ nIn.diff.files # <<>> /\ nOut.tokens # <<>>
        /\ MatchedCount(ModelSubject(nIn), nOut.tokens) < nOut.tokenCount)
        => /\ nOut.usedFallback
           /\ nOut.ensured = buildSpecificSubject(nIn.diff, nOut.tokens, nOut.tokenCount, nIn.promptConfig, nIn.lang, minSubjectLength, maxSubjectLength)
           /\ nOut.message.subject = Trim(CollapseWs(nOut.ensured))
           /\ Includes(nOut.message.subject,
                       LastSegment(nIn.diff.files[TopRanked(nIn.diff.files)].path))

\* the example of the claim: "fix: stuff" for a diff of parser.rs alone
C17_Witness ==
    /\ nOut.path = "content"
    /\ nIn.content = <<"f","i","x",":"," ","s","t","u","f","f">>
    /\ Len(nIn.diff.files) = 1
    /\ nIn.diff.files[1].path = <<"p","a","r","s","e","r",".","r","s">>
    /\ nOut.tokens = << <<"p","a","r","s","e","r",".","r","s">>, <<"p","a","r","s","e","_","e","x","p","r">> >>
    /\ nOut.tokenCount = 1
    /\ nOut.usedFallback
    /\ Includes(nOut.message.subject, <<"p","a","r","s","e","r",".","r","s">>)

\* a subject that matches one token of two required is replaced too
C17_WitnessTwoRequired ==
    /\ nOut.path = "content"
    /\ nOut.tokenCount = 2
    /\ MatchedCount(ModelSubject(nIn), nOut.tokens) = 1
    /\ nOut.usedFallback

-----------------------------------------------------------------------------
(* Claims about the structural weight                                      *)

\* the sum over the patterns of (number of matches in the lines) * weight
RECURSIVE PatternMatches(_, _)
PatternMatches(cleanedLines, pat) ==
    IF cleanedLines = <<>> THEN 0
    ELSE CountMatches(Head(cleanedLines), pat) + PatternMatches(Tail(cleanedLines), pat)

RECURSIVE SumOverPatterns(_, _)
SumOverPatterns(cleanedLines, patterns) ==
    IF patterns = <<>> THEN 0
    ELSE PatternMatches(cleanedLines, Head(patterns)) * Head(patterns).weight
         + SumOverPatterns(cleanedLines, Tail(patterns))

NoPatternMatches(cleanedLines, patterns) ==
    \A i \in 1..Len(patterns) : PatternMatches(cleanedLines, patterns[i]) = 0

ClaimedWeight(path, cleanedLines) ==
    IF detectLang(path) = "none" THEN 1
    ELSE IF NoPatternMatches(cleanedLines, LANGUAGE_WEIGHT[detectLang(path)]) THEN 1
    ELSE SumOverPatterns(cleanedLines, LANGUAGE_WEIGHT[detectLang(path)])

\* the block of the diff that file number i of the result was made from
BlockOfFile(i) ==
    LET withFile == {k \in 1..Len(FileBlocks(pIn.lines)) :
                        /\ FilePathOf(FileBlocks(pIn.lines)[k]) # <<>>
                        /\ basename(FilePathOf(FileBlocks(pIn.lines)[k])) \notin LOCKFILES}
    IN FileBlocks(pIn.lines)[CHOOSE k \in withFile :
                                Cardinality({m \in withFile : m <= k}) = i]

\* C18: the weight of a file is an integer of at least 1: 1 when the language
\* of the path is not recognized or no structural pattern matches its net
\* lines, otherwise the sum over the patterns of match count times weight
C18_WeightIsPatternSum ==
    pOut.done =>
        \A i \in 1..Len(pOut.files) :
            /\ pOut.files[i].weight \in Nat
            /\ pOut.files[i].weight >= 1
            /\ pOut.files[i].changeType # "binary" =>
                  pOut.files[i].weight =
                      ClaimedWeight(pOut.files[i].path,
                                    parseDiffLines(BlockOfFile(i)).cleanedLines)

\* a TypeScript file with several patterns matching, next to a file of an
\* unrecognized language
C18_Witness ==
    /\ pOut.done
    /\ Len(pOut.files) = 2
    /\ pOut.files[1].path = <<"s","r","c","/","a","u","t","h","/","l","o","g","i","n",".","t","s">>
    /\ pOut.files[1].weight = 8
    /\ pOut.files[2].path = <<"n","o","t","e","s",".","t","x","t">>
    /\ pOut.files[2].weight = 1

-----------------------------------------------------------------------------
(* SpecEngine: the calls of ensureWebLlmEngine and the engine cache        *)

\* the models of MODEL_IDS
ModelIds == {"default", "large", "tiny"}

\* the largest number of calls
MaxCalls == 4

\* lines 725-728: another model id was cached
DropOther(cache, modelId) ==
    IF cache.modelId # "none" /\ cache.modelId # modelId
    THEN [cache EXCEPT !.engine = NoEngine, !.promise = 0]
    ELSE cache

Call(modelId, pc, promise, engine) ==
    [modelId |-> modelId, pc |-> pc, promise |-> promise, engine |-> engine]

\* lines 729-740, on the cache lines 725-728 left: the call returns the cached
\* engine, or the pending promise (which has failed when its creator threw),
\* or creates an engine and awaits it
CallAfterDrop(cache, calls, modelId) ==
    IF cache.engine # NoEngine /\ cache.modelId = modelId
    THEN [cache |-> cache, call |-> Call(modelId, "returned", 0, cache.engine)]
    ELSE IF cache.promise # 0 /\ cache.modelId = modelId
    THEN [cache |-> cache,
          call |-> Call(modelId, IF calls[cache.promise].pc = "threw" THEN "threw" ELSE "joined",
                        cache.promise, NoEngine)]
    ELSE [cache |-> [cache EXCEPT !.modelId = modelId, !.promise = Len(calls) + 1],
          call |-> Call(modelId, "creating", Len(calls) + 1, NoEngine)]

ensureWebLlmEngine(cache, calls, modelId) == CallAfterDrop(DropOther(cache, modelId), calls, modelId)

\* the calls that await promise p end with `outcome`
Settle(calls, p, pc, engine) ==
    [i \in 1..Len(calls) |->
        IF calls[i].pc \in {"creating", "joined"} /\ calls[i].promise = p
        THEN [calls[i] EXCEPT !.pc = pc, !.engine = engine]
        ELSE calls[i]]

\* a call ensureWebLlmEngine(webllm, modelId, callback), up to its first await
EnsureCall(modelId) ==
    /\ Len(ensureCalls) < MaxCalls
    /\ engineCache' = ensureWebLlmEngine(engineCache, ensureCalls, modelId).cache
    /\ ensureCalls' = Append(ensureCalls,
                             ensureWebLlmEngine(engineCache, ensureCalls, modelId).call)
    /\ UNCHANGED <<diffVars, normVars, attemptVars, host>>

\* CreateMLCEngine of call c resolves; lines 741-743 run in call c, and the
\* calls that returned its promise get the engine too
CreateResolves(c) ==
    /\ ensureCalls[c].pc = "creating"
    /\ engineCache' = [engineCache EXCEPT
                          !.engine = [model |-> ensureCalls[c].modelId, creation |-> c],
                          !.promise = 0]
    /\ ensureCalls' = Settle(ensureCalls, c, "returned",
                             [model |-> ensureCalls[c].modelId, creation |-> c])
    /\ UNCHANGED <<diffVars, normVars, attemptVars, host>>

\* CreateMLCEngine of call c rejects: the await of line 741 throws
CreateRejects(c) ==
    /\ ensureCalls[c].pc = "creating"
    /\ ensureCalls' = Settle(ensureCalls, c, "threw", NoEngine)
    /\ UNCHANGED <<engineCache, diffVars, normVars, attemptVars, host>>

NextEngine ==
    \/ \E m \in ModelIds : EnsureCall(m)
    \/ \E c \in 1..Len(ensureCalls) : CreateResolves(c)
    \/ \E c \in 1..Len(ensureCalls) : CreateRejects(c)

SpecEngine == Init /\ [][NextEngine]_vars

\* C20: an engine returned for model id M was created for M, and a cached
\* engine was created for the cached model id, in every interleaving of calls
C20_EngineMatchesModel ==
    /\ \A i \in 1..Len(ensureCalls) :
          ensureCalls[i].pc = "returned" => ensureCalls[i].engine.model = ensureCalls[i].modelId
    /\ engineCache.engine # NoEngine => engineCache.engine.model = engineCache.modelId

\* the same while no call is made for another model during a pending creation
C20_HoldsWithoutOverlap ==
    (\A i, j \in 1..Len(ensureCalls) : ensureCalls[i].modelId = ensureCalls[j].modelId)
        => C20_EngineMatchesModel
-----------------------------------------------------------------------------
(* C21: body lines that survive the filters                                 *)

\* the model's body lines that survive filtering and deduplication
SurvivingLines(in) == UniqueBodyLines(CleanedBodyLines(in.bodyLines), {})

\* a surviving line, as written or with the action verb it is given
SurvivorForms(line, in) ==
    {line, ensureActionVerb(line, findFileForLine(line, in.diff.files), in.lang)}

\* body starts with the lines of kept, each as written or with its verb
StartsWithSurvivors(body, kept, in) ==
    /\ Len(body) >= Len(kept)
    /\ \A i \in 1..Len(kept) : body[i] \in SurvivorForms(kept[i], in)

\* C21: when at least one but fewer than 8 body lines of the model survive
\* filtering and deduplication, the final body starts with those lines in
\* their order, synthesized lines follow them, and the body has at most 12 lines
C21_SurvivorsKeptThenSynthesized ==
    LET kept == SurvivingLines(nIn)
    IN (nOut.path = "body" /\ Len(kept) \in 1..7) =>
           Len(nOut.body) <= 12 /\ StartsWithSurvivors(nOut.body, kept, nIn)

\* what the code gives: the body never has more than 12 lines; with fewer
\* than 8 survivors it is the synthesized body alone (empty for a diff
\* without files), with 8 or more it is the first 12 survivors
C21_BodyIsSynthesizedAlone ==
    LET kept == SurvivingLines(nIn)
    IN nOut.path = "body" =>
           /\ Len(nOut.body) <= 12
           /\ Len(kept) < 8 =>
                  /\ nOut.body = buildBodyLines(nIn.diff, 8, 12, nIn.lang)
                  /\ nIn.diff.files = <<>> => nOut.body = <<>>
           /\ Len(kept) >= 8 =>
                  /\ Len(nOut.body) = Min(Len(kept), 12)
                  /\ StartsWithSurvivors(nOut.body, Take(kept, 12), nIn)

\* a body cut from more than 12 survivors, and survivors that are lost
C21_MoreThanTwelveSurvivors ==
    nOut.path = "body" /\ Len(nOut.body) = 12 /\ Len(SurvivingLines(nIn)) > 12
C21_SurvivorsLost ==
    /\ nOut.path = "body" /\ nOut.body # <<>> /\ nIn.diff.files # <<>>
    /\ Len(SurvivingLines(nIn)) \in 1..7
    /\ ~StartsWithSurvivors(nOut.body, SurvivingLines(nIn), nIn)

-----------------------------------------------------------------------------
(* C22: blocks with a binary-file marker                                    *)

HasBinaryMarker(b) == \E i \in 1..Len(b) : StartsWith(b[i], <<"B","i","n","a","r","y"," ","f","i","l","e","s">>)

\* the fixed summary of a binary file
BinaryEntry(filePath) ==
    [path |-> filePath, changeType |-> "binary", additions |-> 0, deletions |-> 0,
     context |-> <<>>, highlights |-> <<<<"b","i","n","a","r","y"," ","f","i","l","e"," ","u","p","d","a","t","e","d">>>>, keywords |-> <<>>,
     weight |-> 1]

HasEntry(files, entry) == \E j \in 1..Len(files) : files[j] = entry

\* a block with a "+++ b/" or "--- a/" path line and no new-file, deleted-file
\* or rename header
PlainBlockWithPathLine(b) ==
    /\ \E i \in 1..Len(b) : StartsWith(b[i], <<"+","+","+"," ","b","/">>) \/ StartsWith(b[i], <<"-","-","-"," ","a","/">>)
    /\ \A i \in 1..Len(b) :
          /\ ~StartsWith(b[i], <<"n","e","w"," ","f","i","l","e"," ","m","o","d","e">>)
          /\ ~StartsWith(b[i], <<"d","e","l","e","t","e","d"," ","f","i","l","e"," ","m","o","d","e">>)
          /\ ~StartsWith(b[i], <<"r","e","n","a","m","e"," ","f","r","o","m">>)

\* C22: every block with a binary-file marker line has an entry in files with
\* its path, changeType binary, additions 0, deletions 0, empty context and
\* keywords, the single highlight "binary file updated" and weight 1,
\* whatever its other header lines are
C22_BinaryBlockHasFixedEntry ==
    pOut.done =>
        \A i \in 1..Len(FileBlocks(pIn.lines)) :
            HasBinaryMarker(FileBlocks(pIn.lines)[i]) =>
                HasEntry(pOut.files, BinaryEntry(HeaderTarget(FileBlocks(pIn.lines)[i][1])))

\* what the code gives: the fixed entry for the marked blocks that also carry
\* a path line and no new-file, deleted-file or rename header; no entry at
\* all for a marked block without path lines
C22_HoldsForPlainBlocksWithPathLine ==
    pOut.done =>
        \A i \in 1..Len(FileBlocks(pIn.lines)) :
            HasBinaryMarker(FileBlocks(pIn.lines)[i]) =>
                /\ PlainBlockWithPathLine(FileBlocks(pIn.lines)[i]) =>
                       HasEntry(pOut.files, BinaryEntry(HeaderTarget(FileBlocks(pIn.lines)[i][1])))
                /\ (Len(FileBlocks(pIn.lines)) = 1 /\ FilePathOf(FileBlocks(pIn.lines)[i]) = <<>>) =>
                       pOut.files = <<>>

\* a binary block that is summarized, and one that leaves no entry
C22_BinarySummarized ==
    /\ pOut.done /\ Len(FileBlocks(pIn.lines)) = 1
    /\ HasBinaryMarker(FileBlocks(pIn.lines)[1])
    /\ pOut.files = <<BinaryEntry(HeaderTarget(pIn.lines[1]))>>
C22_BinaryDropped ==
    /\ pOut.done /\ Len(FileBlocks(pIn.lines)) = 1
    /\ HasBinaryMarker(FileBlocks(pIn.lines)[1])
    /\ pOut.files = <<>>

-----------------------------------------------------------------------------
(* C23: duplicates among the net lines                                      *)

\* no two of the entries lines[from..Len(lines)] are equal after white-space
\* normalization
DistinctFrom(lines, from) ==
    \A i, j \in from..Len(lines) : i # j => normalizeLine(lines[i]) # normalizeLine(lines[j])

RECURSIVE SumOver(_, _, _)
SumOver(keys, a, r) ==
    IF keys = {} THEN 0
    ELSE LET k == CHOOSE x \in keys : TRUE
         IN Max(0, CountKey(a, k) - CountKey(r, k)) + SumOver(keys \ {k}, a, r)

\* the number of net-added lines of a block: per normalized text, the added
\* lines beyond the removed ones
NetAddedCount(b) ==
    SumOver({normalizeLine(t) : t \in Range(TextsWithSign(HunkLinesOf(b), "+"))},
            TextsWithSign(HunkLinesOf(b), "+"), TextsWithSign(HunkLinesOf(b), "-"))

\* C23: the net-line sequence of parseDiffLines is deduplicated: no two
\* entries of cleanedLines, net-added or net-removed, are equal after
\* white-space normalization
C23_NetLinesDeduplicated ==
    parsed.done => DistinctFrom(parsed.cleanedLines, 1)

\* what the code gives: the net-removed entries, which follow the net-added
\* ones, are pairwise different; the net-added entries may repeat
C23_NetRemovedDeduplicated ==
    parsed.done =>
        /\ NetAddedCount(block) <= Len(parsed.cleanedLines)
        /\ DistinctFrom(parsed.cleanedLines, NetAddedCount(block) + 1)

\* a line added twice is twice among the net lines; two different removed
\* lines are both among them
C23_AddedTwice ==
    /\ parsed.done /\ Len(parsed.cleanedLines) >= 2
    /\ parsed.cleanedLines[1] = parsed.cleanedLines[2]
C23_TwoNetRemoved ==
    /\ parsed.done /\ NetAddedCount(block) = 0 /\ Len(parsed.cleanedLines) = 2
    /\ parsed.deletions = 3

-----------------------------------------------------------------------------
(* C24: a subject that is only too short                                    *)

\* the subject line of the model is there, and its subject is non-empty,
\* matches enough required tokens, is not generic and holds no diff-stat syntax
PassesAllButLength(in, tokens, tokenCount) ==
    /\ sanitizeCommitOutput(in.content).subjectLine # <<>>
    /\ ModelSubject(in) # <<>>
    /\ (tokens = <<>> \/ MatchedCount(ModelSubject(in), tokens) >= Max(1, tokenCount))
    /\ ~isTooGeneric(ModelSubject(in))
    /\ ~containsDiffStats(ModelSubject(in))

\* the model's subject, cut only if it exceeds the maximum, in the form the
\* message shows it: white space collapsed, subject style applied
KeptSubject(in) ==
    applySubjectStyle(
        Trim(CollapseWs(IF Len(ModelSubject(in)) > maxSubjectLength
                        THEN trimToMax(ModelSubject(in), maxSubjectLength)
                        ELSE ModelSubject(in))),
        in.promptConfig, in.lang)

\* rest is nothing, or fragments after their lead-in, or the token clause
IsAppendix(rest, tokens, lang) ==
    \/ rest = <<>>
    \/ StartsWith(rest, LengthPrefix(lang))
    \/ rest = TrimEnd(CollapseWs(TokenSnippet(tokens)))

\* C24: a model subject that passes every check except the minimum length is
\* never replaced by a synthesized one: the final subject begins with the
\* model's subject (cut only if it exceeds the maximum) and what follows it
\* is appended fragments or the required-token clause
C24_ShortSubjectKeptAndExpanded ==
    (nOut.path = "content" /\ PassesAllButLength(nIn, nOut.tokens, nOut.tokenCount)) =>
        /\ ~nOut.usedFallback
        /\ StartsWith(nOut.message.subject, KeptSubject(nIn))
        /\ IsAppendix(SliceFrom(nOut.message.subject, Len(KeptSubject(nIn))),
                      nOut.tokens, nIn.lang)

\* a subject shorter than the minimum that is kept and expanded, and a
\* subject longer than the maximum that is kept and cut
C24_Witness ==
    /\ nOut.path = "content" /\ PassesAllButLength(nIn, nOut.tokens, nOut.tokenCount)
    /\ Len(ModelSubject(nIn)) < minSubjectLength
    /\ Len(nOut.message.subject) > Len(KeptSubject(nIn))
    /\ StartsWith(nOut.message.subject, KeptSubject(nIn))
C24_CutBelowMaximum ==
    /\ nOut.path = "content" /\ PassesAllButLength(nIn, nOut.tokens, nOut.tokenCount)
    /\ Len(ModelSubject(nIn)) <= maxSubjectLength
    /\ Len(nOut.message.subject) < Len(KeptSubject(nIn))

\* what the code gives: such a subject is never replaced by a synthesized
\* one, but the final subject is either the kept subject with an appendix or
\* a proper prefix of it, cut after the token clause was appended
C24_KeptButMaybeCut ==
    (nOut.path = "content" /\ PassesAllButLength(nIn, nOut.tokens, nOut.tokenCount)) =>
        /\ ~nOut.usedFallback
        /\ \/ /\ StartsWith(nOut.message.subject, KeptSubject(nIn))
              /\ IsAppendix(SliceFrom(nOut.message.subject, Len(KeptSubject(nIn))),
                            nOut.tokens, nIn.lang)
           \/ /\ StartsWith(KeptSubject(nIn), nOut.message.subject)
              /\ Len(ModelSubject(nIn)) < minSubjectLength
              /\ Len(Trim(CollapseWs(ModelSubject(nIn) \o TokenSnippet(nOut.tokens))))
                     > maxSubjectLength

-----------------------------------------------------------------------------
(* C26, C29: scope and type of the final message                            *)

\* the subject line normalizeCommitMessage is given on the path taken
SubjectLineOf(in, path) ==
    IF path = "content"
    THEN BaseSubjectLine(sanitizeCommitOutput(in.content), in.diff, in.promptConfig, in.lang)
    ELSE FallbackSubjectLine(in.diff, in.promptConfig, in.lang)

\* t is a commit type: a letter, then word characters and dashes
IsTypeText(t) ==
    /\ t # <<>> /\ (t[1] \in LowerSet \/ t[1] \in UpperSet)
    /\ \A k \in 1..Len(t) : IsWord(t[k]) \/ t[k] = "-"

\* m has the form type(scope): subject, with the parentheses at the 1-based
\* positions open and close
HasScopedPrefix(m, open, close) ==
    /\ open > 1 /\ close > open + 1 /\ close < Len(m)
    /\ IsTypeText(SubSeq(m, 1, open - 1))
    /\ m[close + 1] = ":"
    /\ Trim(SubSeq(m, close + 2, Len(m))) # <<>>

\* the scope a line declares in its type(scope): prefix, trimmed; empty when
\* it declares none
DeclaredScope(line) ==
    IF HasScopedPrefix(Trim(line), IndexOf(Trim(line), <<"(">>) + 1,
                       IndexOf(Trim(line), <<")">>) + 1)
    THEN Trim(SubSeq(Trim(line), IndexOf(Trim(line), <<"(">>) + 2,
                     IndexOf(Trim(line), <<")">>)))
    ELSE <<>>

\* the scope hint of the diff: the first directory of its first file
ScopeHintOf(diff) ==
    IF diff.files = <<>> THEN <<"r","e","p","o">> ELSE TopLevelDirectory(diff.files[1].path)

\* C26: the scope of the final message is the scope of the model's own
\* type(scope): prefix when that is non-empty after trimming, otherwise the
\* derived scope hint, whether the subject is the model's or a synthesized one
C26_ScopeFromPrefixElseHint ==
    nOut.path \in {"content", "fallback"} =>
        nOut.message.scope =
            (IF DeclaredScope(SubjectLineOf(nIn, nOut.path)) # <<>>
             THEN DeclaredScope(SubjectLineOf(nIn, nOut.path))
             ELSE ScopeHintOf(nIn.diff))

\* a declared scope kept beside a synthesized subject; a scope that needs
\* trimming; a blank scope replaced by the hint
C26_Witness ==
    /\ nOut.path = "content" /\ nOut.usedFallback
    /\ nIn.content = <<"f","e","a","t","(","a","u","t","h",")",":"," ","a","d","d"," ","v","a","l","i","d","a","t","e","T","o","k","e","n"," ","c","h","e","c","k"," ","t","o"," ","l","o","g","i","n",".","t","s">>
    /\ nOut.message.scope = <<"a","u","t","h">>
    /\ ScopeHintOf(nIn.diff) # <<"a","u","t","h">>
C26_WitnessTrimmed ==
    /\ nOut.path = "content"
    /\ nIn.content = <<"f","e","a","t","("," ","u","i"," ",")",":"," ","r","e","w","o","r","k"," ","v","a","l","i","d","a","t","e","T","o","k","e","n"," ","i","n"," ","l","o","g","i","n",".","t","s">>
    /\ nOut.message.scope = <<"u","i">>
C26_WitnessBlank ==
    /\ nOut.path = "content"
    /\ nIn.content = <<"f","i","x","("," "," ",")",":"," ","r","e","p","a","i","r"," ","t","h","e"," ","p","a","r","s","e","_","e","x","p","r"," ","l","o","o","p"," ","i","n"," ","p","a","r","s","e","r",".","r","s">>
    /\ nOut.message.scope = ScopeHintOf(nIn.diff)

\* the types a completion may declare
DeclaredTypes == {<<"f","i","x">>, <<"d","o","c","s">>}

\* the subject line with the declared type replaced by t, when it declares one
Retyped(line, t) ==
    IF parseCommitMessage(line).matched
    THEN t \o SliceFrom(Trim(line), Len(parseCommitMessage(line).type))
    ELSE line

\* the type of the message normalizeCommitMessage returns for a subject line
TypeOfRun(line, in) ==
    normalizeCommitMessage(NormalizeOptions(line, in.diff, in.promptConfig, in.lang)).type

\* C29: the type of the final message is the type derived from the diff: a
\* run on the same diff whose completion differs only in the declared type
\* gives a message of the same type, the one deriveType returns
C29_TypeFromDiffOnly ==
    nOut.path \in {"content", "fallback"} =>
        /\ nOut.message.type = deriveType(nIn.diff)
        /\ StartsWith(nOut.message.head,
                      WithPrefix(deriveType(nIn.diff) \o <<"(">>, nIn.promptConfig.prefix))
        /\ \A t \in DeclaredTypes :
               TypeOfRun(Retyped(SubjectLineOf(nIn, nOut.path), t), nIn) = nOut.message.type

\* a completion that declares fix for a diff whose derived type is feat
C29_Witness ==
    /\ nOut.path = "content"
    /\ nIn.content = <<"f","i","x","(","a","u","t","h",")",":"," ","a","d","d"," ","v","a","l","i","d","a","t","e","T","o","k","e","n"," ","c","h","e","c","k"," ","t","o"," ","l","o","g","i","n",".","t","s">>
    /\ ~nOut.usedFallback
    /\ nOut.message.type = <<"f","e","a","t">>
    /\ TypeOfRun(Retyped(SubjectLineOf(nIn, "content"), <<"d","o","c","s">>), nIn) = <<"f","e","a","t">>

-----------------------------------------------------------------------------
(* Claims about the cleanup of a generation attempt                        *)

\* the attempts that finish in this step: their finally block runs
FinishingNow == {a \in InFlight : att'[a].pc = "done"}

\* the attempts that are in flight and not cancelled before and after the step
StaysLive == {b \in InFlight : ~att[b].aborted /\ att'[b].pc # "done" /\ ~att'[b].aborted}

\* the attempts the step starts
StartedNow == {b \in (Len(att) + 1)..Len(att') : att'[b].pc # "done" /\ ~att'[b].aborted}

\* C27: a step in which an attempt finishes (its finally block runs) leaves
\* every other attempt that is in flight and not cancelled with state.busy
\* true, the overlay visible and its armed 15 s timer still armed; this
\* includes the attempt a post-filter retry has just started.
C27_CleanupLeavesNewerAttemptAlone ==
    [][FinishingNow # {} =>
          /\ (StaysLive \cup StartedNow) # {} => (busy' /\ overlay')
          /\ \A b \in StaysLive : timers[b] = "armed" => timers'[b] = "armed"]_vars

\* the attempt started by a post-filter retry is in flight, not cancelled and
\* past the library load, while state.busy is false and the overlay hidden
C27_RetryRunsWithoutBusy ==
    \E b \in InFlight :
        /\ att[b].depth = 1 /\ ~att[b].aborted /\ att[b].pc = "cache"
        /\ timers[b] = "armed"
        /\ ~busy /\ ~overlay

\* an attempt that is not cancelled is in flight with its timer switched off
\* by the finally block of another attempt
C27_TimerOfLiveAttemptCleared ==
    \E b \in InFlight :
        /\ ~att[b].aborted /\ att[b].pc \in {"cache", "config", "stream", "retry"}
        /\ timers[b] = "off" /\ timeoutId = 0
        /\ gen.outcome \in {"dropped", "failed", "written"} /\ gen.by # b

\* with one attempt in flight from start to end, state.busy and the overlay
\* stay on while it runs and is not cancelled
C27_LoneAttemptStaysBusy ==
    (Len(att) = 1 /\ InFlight = {1} /\ ~att[1].aborted /\ diffPresent) => busy

-----------------------------------------------------------------------------
(* Extension host: src/src/extension.ts                                    *)

MaxTicks == 2
MaxAccepts == 2

\* a diff of exactly n characters: one modified file whose last added line
\* runs to the end of the text
LongDiff(n) ==
    LET head == DiffText(BlockPool[1])
    IN  [i \in 1..n |-> IF i <= Len(head) THEN head[i]
                        ELSE IF i = Len(head) + 1 THEN "+"
                        ELSE IF i = n THEN "LF"
                        ELSE "x"]

\* what `git diff --cached --patch` can print, by what is staged: two small
\* diffs, a diff of exactly maxChars characters and one a character longer
StagedDiffs ==
    << DiffText(BlockPool[1]), DiffText(BlockPool[2]),
       LongDiff(maxChars), LongDiff(maxChars + 1) >>

\* getStagedDiff: the empty string when nothing is staged
getStagedDiff(staged) == IF staged = 0 THEN <<>> ELSE StagedDiffs[staged]

\* the texts the controller hashes: a staged diff, or the rawDiff that
\* preprocessDiff returns for one
HashedTexts ==
    StagedDiffs \o [i \in 1..Len(StagedDiffs) |-> RawDiffOf(StagedDiffs[i], maxChars)]

\* crypto.createHash('sha256').update(content).digest('hex'): a digest that is
\* equal for two texts exactly when the texts are equal; the digest of a text
\* is the least position that holds it in HashedTexts
hashContent(content) ==
    CHOOSE d \in 1..Len(HashedTexts) :
        /\ HashedTexts[d] = content
        /\ \A e \in 1..(d - 1) : HashedTexts[e] # content

\* webview.postMessage(m) in the step being taken
Post(h, m) == [h EXCEPT !.posted = Append(@, m)]

\* a message to the webview: diff is the staged diff whose PreprocessResult it
\* carries (0 for null or none), by the acceptCommit call that answers (0 for none)
Message(type, diff) == [type |-> type, ok |-> FALSE, error |-> "", by |-> 0, diff |-> diff]

CommitResult(c, ok, error) ==
    [type |-> "commitResult", ok |-> ok, error |-> error, by |-> c, diff |-> 0]

\* String.prototype.trim on a commit message
IsWhite(c) == c \in {" ", "\t", "LF", "CR"}

\* text.trim().length === 0
IsBlank(text) == \A i \in 1..Len(text) : IsWhite(text[i])

MessageTrim(m) ==
    LET black == {i \in 1..Len(m) : ~IsWhite(m[i])}
    IN  IF black = {} THEN <<>>
        ELSE SubSeq(m, CHOOSE i \in black : \A j \in black : i <= j,
                       CHOOSE i \in black : \A j \in black : j <= i)

\* refreshDiff: with a repository, the staged diff is read; a diff that is not
\* blank is preprocessed and diffHash becomes the hash of the result's
\* rawDiff, a blank one sets diffHash to null; then 'init' is posted
refreshDiff(h) ==
    LET diff == getStagedDiff(h.staged)
        some == h.repoRoot /\ ~IsBlank(diff)
    IN  Post([h EXCEPT !.diffHash = IF ~h.repoRoot THEN @
                                    ELSE IF some THEN hashContent(RawDiffOf(diff, maxChars))
                                    ELSE 0,
                       !.shown = IF some THEN h.staged ELSE 0],
             Message("init", IF some THEN h.staged ELSE 0))

\* one run of the callback of startRepoPoller's setInterval
pollOnce(h) ==
    IF ~h.repoRoot THEN h
    ELSE IF h.staged = 0
    THEN [Post(h, Message("diffEmpty", 0)) EXCEPT !.diffHash = 0, !.shown = 0]
    ELSE IF hashContent(getStagedDiff(h.staged)) # h.diffHash
    THEN Post([h EXCEPT !.diffHash = hashContent(RawDiffOf(getStagedDiff(h.staged), maxChars)),
                        !.shown = h.staged],
              Message("diffUpdated", h.staged))
    ELSE h

\* an acceptCommit call: the message it was given, where it is suspended
\* ("commit", "analytics", "refresh" or "done") and how it went
AcceptCall(message, pc, outcome) == [message |-> message, pc |-> pc, outcome |-> outcome]

\* acceptCommit up to the await of executeGitCommit
acceptCommit(h, message) ==
    LET c == Len(h.calls) + 1
    IN  IF ~h.repoRoot
        THEN Post([h EXCEPT !.calls = Append(@, AcceptCall(message, "done", "noRepo"))],
                  CommitResult(c, FALSE, "No repository selected."))
        ELSE IF message = <<>> \/ IsBlank(message)
        THEN Post([h EXCEPT !.calls = Append(@, AcceptCall(message, "done", "emptyMessage"))],
                  CommitResult(c, FALSE, "Commit message is empty."))
        ELSE [h EXCEPT !.calls = Append(@, AcceptCall(message, "commit", "pending"))]

\* `git commit -m message.trim()` succeeds: the staged changes become a commit
OnCommitDone(h, c) ==
    [h EXCEPT !.commits = Append(@, [by |-> c, message |-> MessageTrim(h.calls[c].message)]),
              !.staged = 0,
              !.calls[c].pc = "analytics",
              !.calls[c].outcome = "committed"]

\* recordAccepted
recordAccepted(n) == n + 1

\* OnCommitThrown as it would be if the acceptance were recorded first
OnCommitThrownCounted(h, c) ==
    Post([h EXCEPT !.commitAccepted = recordAccepted(@),
                   !.calls[c].pc = "done",
                   !.calls[c].outcome = "commitThrew"],
         CommitResult(c, FALSE, "Command failed: git commit"))

\* executeGitCommit throws: the catch block posts the error
OnCommitThrown(h, c) ==
    Post([h EXCEPT !.calls[c].pc = "done", !.calls[c].outcome = "commitThrew"],
         CommitResult(c, FALSE, "Command failed: git commit"))

\* updateAnalytics(recordAccepted) returns, ok:true is posted and refreshDiff
\* is called
OnAnalyticsDone(h, c) ==
    Post([h EXCEPT !.commitAccepted = recordAccepted(@), !.calls[c].pc = "refresh"],
         CommitResult(c, TRUE, ""))

\* the refreshDiff of acceptCommit returns
OnRefreshDone(h, c) ==
    refreshDiff([h EXCEPT !.calls[c].pc = "done", !.calls[c].outcome = "accepted"])

\* the refreshDiff of acceptCommit throws (git diff failed): the catch block
\* posts the error
OnRefreshThrown(h, c) ==
    Post([h EXCEPT !.calls[c].pc = "done", !.calls[c].outcome = "refreshThrew"],
         CommitResult(c, FALSE, "Command failed: git diff"))

\* the commit messages the webview sends
AcceptMessages ==
    { <<>>, <<" ","LF"," ">>,
      <<" ","f","e","a","t",":"," ","a","d","d"," ","l","o","g","i","n","LF">> }

\* the controller at the start of a step: nothing posted yet
Quiet == [host EXCEPT !.posted = <<>>]

notHost == <<diffVars, normVars, attemptVars, engineCache, ensureCalls>>

\* selectRepo: the repository is found or not, the diff is refreshed and the
\* poller started
SelectRepo ==
    \E found \in BOOLEAN :
        /\ host' = [refreshDiff([Quiet EXCEPT !.repoRoot = found]) EXCEPT !.poller = TRUE]
        /\ UNCHANGED notHost

\* the webview asks for refreshDiff
RefreshDiff ==
    /\ host' = refreshDiff(Quiet)
    /\ UNCHANGED notHost

\* the user stages or unstages changes
Stage ==
    \E s \in 0..Len(StagedDiffs) :
        /\ s # host.staged
        /\ host' = [Quiet EXCEPT !.staged = s]
        /\ UNCHANGED notHost

\* the interval of the poller elapses
PollTick ==
    /\ host.poller
    /\ host.ticks < MaxTicks
    /\ host' = pollOnce([Quiet EXCEPT !.ticks = @ + 1])
    /\ UNCHANGED notHost

\* the webview sends acceptCommit
AcceptCommit ==
    /\ Len(host.calls) < MaxAccepts
    /\ \E message \in AcceptMessages : host' = acceptCommit(Quiet, message)
    /\ UNCHANGED notHost

CommitDone(c) ==
    /\ host.calls[c].pc = "commit"
    /\ host.staged # 0
    /\ host' = OnCommitDone(Quiet, c)
    /\ UNCHANGED notHost

CommitThrown(c) ==
    /\ host.calls[c].pc = "commit"
    /\ host' = OnCommitThrown(Quiet, c)
    /\ UNCHANGED notHost

AnalyticsDone(c) ==
    /\ host.calls[c].pc = "analytics"
    /\ host' = OnAnalyticsDone(Quiet, c)
    /\ UNCHANGED notHost

RefreshDone(c) ==
    /\ host.calls[c].pc = "refresh"
    /\ host' = OnRefreshDone(Quiet, c)
    /\ UNCHANGED notHost

RefreshThrown(c) ==
    /\ host.calls[c].pc = "refresh"
    /\ host' = OnRefreshThrown(Quiet, c)
    /\ UNCHANGED notHost

NextHost ==
    \/ SelectRepo
    \/ RefreshDiff
    \/ Stage
    \/ PollTick
    \/ AcceptCommit
    \/ \E c \in 1..Len(host.calls) : CommitDone(c)
    \/ \E c \in 1..Len(host.calls) : CommitThrown(c)
    \/ \E c \in 1..Len(host.calls) : AnalyticsDone(c)
    \/ \E c \in 1..Len(host.calls) : RefreshDone(c)
    \/ \E c \in 1..Len(host.calls) : RefreshThrown(c)

SpecHost == Init /\ [][NextHost]_vars


-----------------------------------------------------------------------------
(* Claims about the extension host                                         *)

\* the step is a run of the poller that posts diffUpdated
PollerPostsUpdate ==
    /\ host'.ticks = host.ticks + 1
    /\ \E i \in 1..Len(host'.posted) : host'.posted[i].type = "diffUpdated"

\* C28: a run of the poller posts diffUpdated only when the staged diff text
\* differs from the diff last sent to the webview by refreshDiff or by the
\* poller; with the staged diff unchanged, whatever its size, a tick posts no
\* diffUpdated.
C28_PollerPostsOnlyChangedDiff ==
    [][PollerPostsUpdate => getStagedDiff(host.staged) # getStagedDiff(host.shown)]_vars

\* the same for a staged diff of at most maxChars characters
C28_HoldsUpToCeiling ==
    [][(PollerPostsUpdate /\ Len(getStagedDiff(host.staged)) <= maxChars)
           => getStagedDiff(host.staged) # getStagedDiff(host.shown)]_vars

\* the poller has run twice over one staged diff longer than maxChars that the
\* webview had been sent, and the second run posted it again
C28_LongDiffPostedAgain ==
    /\ host.ticks = 2
    /\ Len(getStagedDiff(host.staged)) > maxChars
    /\ host.shown = host.staged
    /\ host.diffHash # hashContent(getStagedDiff(host.staged))
    /\ \E i \in 1..Len(host.posted) : host.posted[i].type = "diffUpdated"

\* the poller ran over an unchanged staged diff at the ceiling and posted nothing
C28_QuietAtCeiling ==
    /\ host.ticks >= 1
    /\ Len(getStagedDiff(host.staged)) = maxChars
    /\ host.shown = host.staged
    /\ host.posted = <<>>
    /\ host.diffHash = hashContent(getStagedDiff(host.staged))

\* the commits the acceptCommit call c has made
CommitsBy(h, c) == {k \in 1..Len(h.commits) : h.commits[k].by = c}

\* the answer a call that fails posts, alone, in the step in which it fails
PostsFailure(c, errors) ==
    /\ Len(host'.posted) = 1
    /\ host'.posted[1].type = "commitResult"
    /\ host'.posted[1].by = c
    /\ ~host'.posted[1].ok
    /\ host'.posted[1].error \in errors

LeavesRepositoryAndAnalytics ==
    /\ host'.commits = host.commits
    /\ host'.commitAccepted = host.commitAccepted

\* C30: the commitAccepted counter grows, and commitResult ok:true is posted,
\* only in a step of a call whose git commit has succeeded; a call made with
\* no repository selected, or with an empty or blank message, or whose git
\* commit throws, posts commitResult ok:false with an error, is over, makes no
\* commit then or later and leaves the analytics as they were.
C30_AcceptedOnlyAfterCommit ==
    [][/\ host'.commitAccepted # host.commitAccepted =>
             \E c \in 1..Len(host.calls) :
                 /\ CommitsBy(host, c) # {}
                 /\ host.calls[c].pc = "analytics"
                 /\ host'.commitAccepted = host.commitAccepted + 1
       /\ \A i \in 1..Len(host'.posted) :
             (host'.posted[i].type = "commitResult" /\ host'.posted[i].ok) =>
                 CommitsBy(host, host'.posted[i].by) # {}
       /\ Len(host'.calls) > Len(host.calls) =>
             LET c == Len(host'.calls)
             IN  /\ ~host.repoRoot =>
                       /\ PostsFailure(c, {"No repository selected."})
                       /\ host'.calls[c].pc = "done"
                       /\ LeavesRepositoryAndAnalytics
                 /\ (host.repoRoot /\ IsBlank(host'.calls[c].message)) =>
                       /\ PostsFailure(c, {"Commit message is empty."})
                       /\ host'.calls[c].pc = "done"
                       /\ LeavesRepositoryAndAnalytics
       /\ \A c \in 1..Len(host.calls) :
             /\ (host.calls[c].pc = "commit" /\ host'.calls[c].outcome = "commitThrew") =>
                   /\ PostsFailure(c, {"Command failed: git commit"})
                   /\ host'.calls[c].pc = "done"
                   /\ LeavesRepositoryAndAnalytics
             /\ host.calls[c].pc = "done" =>
                   /\ host'.calls[c] = host.calls[c]
                   /\ CommitsBy(host', c) = CommitsBy(host, c)]_vars

\* one call was accepted after its commit and another one's commit threw
C30_Witness ==
    /\ host.commitAccepted = 1
    /\ Len(host.commits) = 1
    /\ \E c \in 1..Len(host.calls) :
          host.calls[c].outcome = "accepted" /\ CommitsBy(host, c) # {}
    /\ \E c \in 1..Len(host.calls) :
          /\ host.calls[c].outcome = "commitThrew"
          /\ CommitsBy(host, c) = {}
          /\ host.posted = <<CommitResult(c, FALSE, "Command failed: git commit")>>

\* a call made with a blank message was refused
C30_WitnessBlankMessage ==
    \E c \in 1..Len(host.calls) :
        /\ host.calls[c].outcome = "emptyMessage"
        /\ host.calls[c].message # <<>>
        /\ host.posted = <<CommitResult(c, FALSE, "Commit message is empty.")>>
        /\ host.commitAccepted = 1

\* a call made with no repository selected was refused
C30_WitnessNoRepository ==
    \E c \in 1..Len(host.calls) :
        /\ host.calls[c].outcome = "noRepo"
        /\ host.posted = <<CommitResult(c, FALSE, "No repository selected.")>>
        /\ host.staged # 0

-----------------------------------------------------------------------------
(* Claims about a file that cannot be read                                 *)

\* what preprocessDiff returns for the same diff when every file can be read
AllReadable == preprocessDiff(TreePaths, pIn.lines, pIn.maxChars)

\* C25: when the read of a file fails in findContextLabels, preprocessDiff
\* still returns, with an entry for that file whose context is empty and
\* whose path, changeType, additions, deletions, keywords, highlights and
\* weight are what they are when the read succeeds; the entries of the other
\* files are the same as when every read succeeds.
C25_ReadFailureOnlyEmptiesContext ==
    pOut.done =>
        LET good == AllReadable
        IN  /\ Len(pOut.files) = Len(good.files)
            /\ \A i \in 1..Len(pOut.files) :
                  IF Readable(pIn.repoRoot, pOut.files[i].path)
                  THEN pOut.files[i] = good.files[i]
                  ELSE /\ pOut.files[i].context = <<>>
                       /\ pOut.files[i] = [good.files[i] EXCEPT !.context = <<>>]

\* the read of one file failed: its entry has lost the labels it has when the
\* read succeeds and kept its keywords and highlights, next to the entry of a
\* file that was read and has its labels
C25_Witness ==
    /\ pOut.done
    /\ Len(pOut.files) = 2
    /\ \E i, j \in 1..Len(pOut.files) :
          /\ ~Readable(pIn.repoRoot, pOut.files[i].path)
          /\ AllReadable.files[i].context # <<>>
          /\ pOut.files[i].context = <<>>
          /\ pOut.files[i].keywords # <<>>
          /\ pOut.files[i].highlights # <<>>
          /\ pOut.files[i].weight > 1
          /\ Readable(pIn.repoRoot, pOut.files[j].path)
          /\ pOut.files[j].context # <<>>
====
